---- MODULE Spec2Model ----
(***************************************************************************)
(* A model of neonix.io.nixio.NixIO, the writer that maps a Neo object     *)
(* graph (Block, Segment, RecordingChannelGroup, Unit, AnalogSignal,       *)
(* IrregularlySampledSignal, Epoch, Event, SpikeTrain) onto NIX objects    *)
(* (Block, Group, Source, DataArray, MultiTag, Section).                   *)
(*                                                                         *)
(* The NIX file is a table of objects and a table of metadata sections,    *)
(* both in creation order.  Every write_* method is one action; the calls  *)
(* a method makes are operators on a mapper value                          *)
(*     [objs, secs, map, exc, ret]                                         *)
(* where exc is the exception in flight ("none" while the call runs        *)
(* normally): a step of a call that finds exc set does nothing, which is   *)
(* how a Python exception skips the rest of every enclosing method.        *)
(***************************************************************************)
EXTENDS Integers, Sequences, FiniteSets, TLC

VARIABLES
    heap,          \* the caller's Neo objects: entity id -> attributes
    nix_objects,   \* nix_file: blocks, groups, sources, data arrays, multi tags
    nix_sections,  \* nix_file: metadata sections
    neo_nix_map,   \* self.neo_nix_map: id(neo object) -> NIX object(s)
    raised,        \* the exception the last call ended with, or "none"
    returned,      \* what the last call returned
    called,        \* the last call: <<method, argument>>
    calls,         \* number of calls made on this mapper
    previous       \* what the mapper opened before this one left in the file

vars == <<heap, nix_objects, nix_sections, neo_nix_map, raised, returned,
          called, calls, previous>>

----------------------------------------------------------------------------
(* Sequences and small helpers.                                            *)

Range(s) == {s[i] : i \in 1..Len(s)}

RECURSIVE SeqOfSet(_)
SeqOfSet(S) ==
    IF S = {} THEN <<>>
    ELSE LET m == CHOOSE x \in S : \A y \in S : x <= y
         IN  <<m>> \o SeqOfSet(S \ {m})

\* str.format of a non-negative integer
FormatInt(n) == ToString(n)

----------------------------------------------------------------------------
(* The NIX store, as far as NixIO uses it.                                 *)

NixObject(kind, name, type, parent) ==
    [kind |-> kind, name |-> name, type |-> type, parent |-> parent,
     definition |-> "", metadata |-> 0,
     data_arrays |-> <<>>, multi_tags |-> <<>>,
     sources |-> <<>>, references |-> <<>>,
     positions |-> 0, extents |-> 0, features |-> <<>>,
     dimensions |-> <<>>, data |-> <<>>]

NixSection(name, type, parent) ==
    [name |-> name, type |-> type, parent |-> parent, props |-> <<>>]

\* ids of the children of one kind that `parent` owns (0 is the file), in
\* creation order: file.blocks, block.groups, block.sources, source.sources,
\* block.data_arrays, block.multi_tags
Owned(M, parent, kind) ==
    SeqOfSet({i \in 1..Len(M.objs) :
                 M.objs[i].kind = kind /\ M.objs[i].parent = parent})

\* the child collections an object of each kind has ("file" is nix_file)
Attributes(kind) ==
    CASE kind = "file" -> {"block"}
      [] kind = "block" -> {"group", "source", "data_array", "tag", "multi_tag"}
      [] kind = "group" -> {"data_array", "tag", "multi_tag"}
      [] kind = "source" -> {"source"}
      [] kind = "data_array" -> {"source"}
      [] kind = "multi_tag" -> {"source", "feature"}

\* the child collection a path step of `obj_type` selects under `obj`: what
\* the object owns, or, for what is only appended to it (a Group's
\* data_arrays and multi_tags, the sources of a DataArray or MultiTag), the
\* list of what was appended
Collection(M, obj, obj_type) ==
    IF obj # 0 /\ M.objs[obj].kind = "group" /\ obj_type = "data_array"
        THEN M.objs[obj].data_arrays
    ELSE IF obj # 0 /\ M.objs[obj].kind = "group" /\ obj_type = "multi_tag"
        THEN M.objs[obj].multi_tags
    ELSE IF obj # 0 /\ M.objs[obj].kind \in {"data_array", "multi_tag"}
                     /\ obj_type = "source"
        THEN M.objs[obj].sources
    ELSE Owned(M, obj, obj_type)

\* collection[name]: the member with that name, 0 when there is none
ByName(M, ids, name) ==
    IF \E k \in 1..Len(ids) : M.objs[ids[k]].name = name
    THEN ids[CHOOSE k \in 1..Len(ids) : M.objs[ids[k]].name = name]
    ELSE 0

SubSections(M, parent) ==
    {i \in 1..Len(M.secs) : M.secs[i].parent = parent}

Raise(M, exc) == IF M.exc # "none" THEN M ELSE [M EXCEPT !.exc = exc]

\* variant: a store that takes any name
Create_unchecked(M, kind, name, type, parent) ==
    IF M.exc # "none" THEN M
    ELSE [M EXCEPT !.objs = Append(@, NixObject(kind, name, type, parent))]

\* create_block / create_group / create_source / create_data_array /
\* create_multi_tag: the store refuses a name its parent already has
Create(M, kind, name, type, parent) ==
    IF M.exc # "none" THEN M
    ELSE IF ByName(M, Owned(M, parent, kind), name) # 0
        THEN Raise(M, "DuplicateName")
    ELSE [M EXCEPT !.objs = Append(@, NixObject(kind, name, type, parent))]

\* the object the last successful Create made
Last(M) == Len(M.objs)

\* create_section under a section (or under the file when parent = 0)
CreateSection(M, parent, name, type) ==
    IF M.exc # "none" THEN M
    ELSE IF \E i \in SubSections(M, parent) : M.secs[i].name = name
        THEN Raise(M, "DuplicateName")
    ELSE [M EXCEPT !.secs = Append(@, NixSection(name, type, parent))]

LastSection(M) == Len(M.secs)

\* section.create_property(name, nix.Value(value))
CreateProperty(M, sec, name, value) ==
    IF M.exc # "none" THEN M
    ELSE IF \E k \in 1..Len(M.secs[sec].props) : M.secs[sec].props[k][1] = name
        THEN Raise(M, "DuplicateName")
    ELSE [M EXCEPT !.secs[sec].props = Append(@, <<name, value>>)]

\* nix_obj.definition = nix_definition
SetDefinition(M, obj, definition) ==
    IF M.exc # "none" THEN M
    ELSE [M EXCEPT !.objs[obj].definition = definition]

\* nix_obj.metadata = section
SetMetadata(M, obj, sec) ==
    IF M.exc # "none" THEN M
    ELSE [M EXCEPT !.objs[obj].metadata = sec]

\* variant: a new dimension goes in front of those the array has
AppendDimension_in_front(M, da, dim) ==
    IF M.exc # "none" THEN M
    ELSE [M EXCEPT !.objs[da].dimensions = <<dim>> \o @]

\* data_array.append_sampled_dimension / append_range_dimension /
\* append_set_dimension
AppendDimension(M, da, dim) ==
    IF M.exc # "none" THEN M
    ELSE [M EXCEPT !.objs[da].dimensions = Append(@, dim)]

\* group.data_arrays.append(data_array)
AppendDataArray(M, group, da) ==
    IF M.exc # "none" THEN M
    ELSE [M EXCEPT !.objs[group].data_arrays = Append(@, da)]

\* group.multi_tags.append(multi_tag)
AppendMultiTag(M, group, mtag) ==
    IF M.exc # "none" THEN M
    ELSE [M EXCEPT !.objs[group].multi_tags = Append(@, mtag)]

\* obj.sources.append(source), obj a DataArray or a MultiTag
AppendSource(M, obj, source) ==
    IF M.exc # "none" THEN M
    ELSE [M EXCEPT !.objs[obj].sources = Append(@, source)]

\* multi_tag.references.extend(data_arrays)
ExtendReferences(M, mtag, das) ==
    IF M.exc # "none" THEN M
    ELSE [M EXCEPT !.objs[mtag].references = @ \o das]

\* variant: the array is made without its data
CreateDataArray_empty(M, name, type, parent, data) ==
    Create(M, "data_array", name, type, parent)

\* block.create_data_array(name, type, data=data), for the arrays of times
\* and durations (the samples of signals and waveforms are not modelled)
CreateDataArray(M, name, type, parent, data) ==
    LET M1 == Create(M, "data_array", name, type, parent)
    IN  IF M1.exc # "none" THEN M1
        ELSE [M1 EXCEPT !.objs[Last(M1)].data = data]

\* block.create_multi_tag(name, type, positions)
CreateMultiTag(M, name, type, parent, positions) ==
    LET M1 == Create(M, "multi_tag", name, type, parent)
    IN  IF M1.exc # "none" THEN M1
        ELSE [M1 EXCEPT !.objs[Last(M1)].positions = positions]

\* multi_tag.extents = data_array
SetExtents(M, mtag, da) ==
    IF M.exc # "none" THEN M
    ELSE [M EXCEPT !.objs[mtag].extents = da]

\* multi_tag.create_feature(data_array, nix.LinkType.Indexed)
CreateFeature(M, mtag, da, link_type) ==
    IF M.exc # "none" THEN M
    ELSE [M EXCEPT !.objs[mtag].features = Append(@, <<da, link_type>>)]

\* self.neo_nix_map[id(neo_object)] = nix_object
SetMapped(M, neo_object, nix_object) ==
    IF M.exc # "none" THEN M
    ELSE [M EXCEPT !.map = [e \in DOMAIN @ \cup {neo_object} |->
                               IF e = neo_object THEN nix_object ELSE @[e]]]

\* return value
Return(M, value) ==
    IF M.exc # "none" THEN M ELSE [M EXCEPT !.ret = value]

----------------------------------------------------------------------------
(* Path tracker: _get_object_at.                                           *)

PathTypes == {"block", "group", "source", "data_array", "tag", "multi_tag",
              "feature"}

\* the outcomes of a lookup that finds no object: obj.<type>s[obj_name] with
\* no such name (KeyError, and None for a type that is not a path type), and
\* obj.<type>s on an object that has no such collection (AttributeError)
NotFound == -1
NoAttribute == -2

LookupError(obj) == IF obj = NoAttribute THEN "AttributeError" ELSE "KeyError"

RECURSIVE ResolveFrom(_, _, _)
ResolveFrom(M, obj, path) ==
    IF path = <<>> THEN obj
    ELSE LET obj_type == Head(path)[1]
             obj_name == Head(path)[2]
             kind == IF obj = 0 THEN "file" ELSE M.objs[obj].kind
             next == ByName(M, Collection(M, obj, obj_type), obj_name)
         IN  IF obj_type \notin PathTypes THEN NotFound
             ELSE IF obj_type \notin Attributes(kind) THEN NoAttribute
             ELSE IF next = 0 THEN NotFound
             ELSE ResolveFrom(M, next, Tail(path))

get_object_at(M, path) == ResolveFrom(M, 0, path)

ButLast(path) == SubSeq(path, 1, Len(path) - 1)

----------------------------------------------------------------------------
(* Metadata mirror: _get_or_init_metadata, _copy_annotations.              *)

\* variant: every section is created directly under the file
attach_section_at_root(M, nix_obj, obj_parent) ==
    IF M.exc # "none" THEN M
    ELSE SetMetadata(
             CreateSection(M, 0, M.objs[nix_obj].name,
                           M.objs[nix_obj].type \o ".metadata"),
             nix_obj, Len(M.secs) + 1)

\* nix_obj.metadata = parent_metadata.create_section(nix_obj.name,
\*                                                   nix_obj.type+".metadata")
\* where parent_metadata is the file or the parent's (ensured) section
attach_section(M, nix_obj, obj_parent) ==
    IF M.exc # "none" THEN M
    ELSE LET parent_metadata ==
                 IF obj_parent = 0 THEN 0 ELSE M.objs[obj_parent].metadata
         IN  SetMetadata(
                 CreateSection(M, parent_metadata, M.objs[nix_obj].name,
                               M.objs[nix_obj].type \o ".metadata"),
                 nix_obj, Len(M.secs) + 1)

\* variant: a section is made whether or not the object has one
RECURSIVE get_or_init_metadata_fresh(_, _, _)
get_or_init_metadata_fresh(M, nix_obj, obj_path) ==
    IF M.exc # "none" THEN M
    ELSE IF Len(obj_path) <= 1 THEN attach_section(M, nix_obj, 0)
    ELSE LET obj_parent == get_object_at(M, ButLast(obj_path))
         IN  IF obj_parent < 0 THEN Raise(M, LookupError(obj_parent))
             ELSE attach_section(
                      get_or_init_metadata_fresh(M, obj_parent,
                                                 ButLast(obj_path)),
                      nix_obj, obj_parent)

RECURSIVE get_or_init_metadata(_, _, _)
get_or_init_metadata(M, nix_obj, obj_path) ==
    IF M.exc # "none" THEN M
    ELSE IF M.objs[nix_obj].metadata # 0 THEN M
    ELSE IF Len(obj_path) <= 1 THEN attach_section(M, nix_obj, 0)
    ELSE LET obj_parent == get_object_at(M, ButLast(obj_path))
         IN  IF obj_parent < 0 THEN Raise(M, LookupError(obj_parent))
             ELSE attach_section(
                      get_or_init_metadata(M, obj_parent, ButLast(obj_path)),
                      nix_obj, obj_parent)

\* metadata.create_property(name, nix.Value(value)) on nix_obj's section
create_property(M, nix_obj, name, value) ==
    IF M.exc # "none" THEN M
    ELSE CreateProperty(M, M.objs[nix_obj].metadata, name, value)

\* variant helper: the property is written when the condition holds
property_eager(M, condition, nix_obj, name, value) ==
    IF condition THEN create_property(M, nix_obj, name, value) ELSE M

RECURSIVE add_annotations(_, _, _)
add_annotations(M, annotations, metadata) ==
    IF M.exc # "none" THEN M
    ELSE IF annotations = <<>> THEN M
    ELSE add_annotations(
             CreateProperty(M, metadata, Head(annotations)[1],
                            Head(annotations)[2]),
             Tail(annotations), metadata)

\* NixIO._add_annotations(neo_object.annotations, nix_object.metadata)
annotate(M, neo_object, nix_object) ==
    IF M.exc # "none" THEN M
    ELSE add_annotations(M, heap[neo_object].annotations,
                         M.objs[nix_object].metadata)

\* variant: the annotations are left behind
copy_annotations_dropped(M, neo_object, nix_object, object_path) == M

copy_annotations(M, neo_object, nix_object, object_path) ==
    IF M.exc # "none" \/ heap[neo_object].annotations = <<>> THEN M
    ELSE annotate(get_or_init_metadata(M, nix_object, object_path),
                  neo_object, nix_object)

\* variant: the section is made before file_origin is looked at
copy_file_origin_eager(M, neo_object, nix_object, object_path) ==
    IF M.exc # "none" THEN M
    ELSE property_eager(get_or_init_metadata(M, nix_object, object_path),
                        heap[neo_object].file_origin # "", nix_object,
                        "file_origin", heap[neo_object].file_origin)

\* if neo_object.file_origin: metadata.create_property("file_origin", ...)
copy_file_origin(M, neo_object, nix_object, object_path) ==
    IF M.exc # "none" \/ heap[neo_object].file_origin = "" THEN M
    ELSE create_property(get_or_init_metadata(M, nix_object, object_path),
                         nix_object, "file_origin",
                         heap[neo_object].file_origin)

\* calculate_timestamp: whole seconds of a datetime <<seconds, microseconds>>
calculate_timestamp(dt) == dt[1]

\* if neo_object.file_datetime: metadata.create_property("file_datetime", ...)
copy_file_datetime(M, neo_object, nix_object, object_path) ==
    IF M.exc # "none" \/ heap[neo_object].file_datetime = <<>> THEN M
    ELSE create_property(get_or_init_metadata(M, nix_object, object_path),
                         nix_object, "file_datetime",
                         calculate_timestamp(heap[neo_object].file_datetime))

\* _get_mapped_object raises KeyError for an object that is not in the map
Mapped(M, neo_object) == neo_object \in DOMAIN M.map

\* variant: an object that is not in the map is passed over in silence
get_mapped_objects_skipping(M, neo_object_list) ==
    IF M.exc # "none" THEN M
    ELSE Return(M, [k \in 1..Len(SelectSeq(neo_object_list,
                                           LAMBDA e : Mapped(M, e))) |->
                       M.map[SelectSeq(neo_object_list,
                                       LAMBDA e : Mapped(M, e))[k]]])

\* _get_mapped_objects: the whole list is resolved before any of it is used,
\* so one missing entry raises before the caller's loop body runs at all
get_mapped_objects(M, neo_object_list) ==
    IF M.exc # "none" THEN M
    ELSE IF \E k \in 1..Len(neo_object_list) : ~Mapped(M, neo_object_list[k])
        THEN Raise(M, "KeyError")
    ELSE Return(M, [k \in 1..Len(neo_object_list) |->
                       M.map[neo_object_list[k]]])

\* variant: only the regularly sampled signals are collected
get_contained_signals_regular(M, obj) ==
    SelectSeq(M.objs[obj].data_arrays,
              LAMBDA da : M.objs[da].type = "neo.analogsignal")

\* _get_contained_signals
get_contained_signals(M, obj) ==
    SelectSeq(M.objs[obj].data_arrays,
              LAMBDA da : M.objs[da].type \in
                  {"neo.analogsignal", "neo.irregularlysampledsignal"})

----------------------------------------------------------------------------
(* Identity resolver: the names NixIO gives to what it creates.            *)

\* variant: the synthesized name leaves the count out
NixName_uncounted(neo_object, parent_name, tag, count) ==
    IF heap[neo_object].name # "" THEN heap[neo_object].name
    ELSE parent_name \o "." \o tag

\* nix_name = neo_obj.name; if not nix_name: "{}.<Tag>{}".format(parent, n)
NixName(neo_object, parent_name, tag, count) ==
    IF heap[neo_object].name # "" THEN heap[neo_object].name
    ELSE parent_name \o "." \o tag \o FormatInt(count)

\* variant: every unnamed block gets the same name
BlockName_uncounted(neo_block, nblocks) ==
    IF heap[neo_block].name # "" THEN heap[neo_block].name
    ELSE "neo.Block"

\* "neo.Block{}".format(nblocks)
BlockName(neo_block, nblocks) ==
    IF heap[neo_block].name # "" THEN heap[neo_block].name
    ELSE "neo.Block" \o FormatInt(nblocks)

\* variant: channel suffixes counted from one
IndexedName_from_one(nix_name, idx) == nix_name \o "." \o FormatInt(idx + 1)

\* "{}.{}".format(nix_name, idx)
IndexedName(nix_name, idx) == nix_name \o "." \o FormatInt(idx)

\* "{}.times", "{}.durations", "{}.waveforms"
PartName(nix_name, part) == nix_name \o "." \o part

\* the parent objects a write_* method starts by looking up
Lookup(M, path) ==
    IF M.exc # "none" THEN M
    ELSE IF get_object_at(M, path) < 0
        THEN Raise(M, LookupError(get_object_at(M, path)))
    ELSE M

\* the handle of the k-th object a method creates, counted from the store M
\* it was called on (a method whose creation fails uses no later handle)
NewId(M, k) == Len(M.objs) + k

----------------------------------------------------------------------------
(* Structural mapper.  A method body is one nested application: the        *)
(* statements of the Python method run from the innermost application      *)
(* outwards, each on the mapper value the one before it left.              *)

\* "if <condition>: metadata.create_property(name, nix.Value(value))"
property_if(M, condition, nix_obj, name, value) ==
    IF M.exc # "none" \/ ~condition THEN M
    ELSE create_property(M, nix_obj, name, value)

\* Python truth of an optional quantity: None and zero are both false
Truthy(quantity) == quantity # <<>> /\ quantity[1] # 0

(* Signals. *)

\* variant: every column gets a section of its own under the signal's
write_signal_channel_own_section(M, parent_block, parent_group, nix_name, nix_type, nix_definition, timedim, section, idx) ==
    LET nix_data_array == NewId(M, 1)
    IN  Return(
        SetMetadata(
        CreateSection(
        AppendDataArray(
        AppendDimension(
        AppendDimension(
        SetDefinition(
        Create(M, "data_array", IndexedName(nix_name, idx), nix_type,
               parent_block),
        nix_data_array, nix_definition),
        nix_data_array, timedim),
        nix_data_array, "set"),
        parent_group, nix_data_array),
        section, IndexedName(nix_name, idx), nix_type \o ".metadata"),
        nix_data_array, Len(M.secs) + 1),
        Append(M.ret, nix_data_array))

\* one pass of the loop "for idx, sig in enumerate(signal.transpose())";
\* M.ret is nix_data_arrays
write_signal_channel(M, parent_block, parent_group, nix_name, nix_type, nix_definition, timedim, section, idx) ==
    LET nix_data_array == NewId(M, 1)
    IN  Return(
        SetMetadata(
        AppendDataArray(
        AppendDimension(
        AppendDimension(
        SetDefinition(
        Create(M, "data_array", IndexedName(nix_name, idx), nix_type,
               parent_block),
        nix_data_array, nix_definition),
        nix_data_array, timedim),
        nix_data_array, "set"),
        parent_group, nix_data_array),
        nix_data_array, section),
        Append(M.ret, nix_data_array))

RECURSIVE write_signal_channels(_, _, _, _, _, _, _, _, _, _)
write_signal_channels(M, parent_block, parent_group, nix_name, nix_type, nix_definition, timedim, section, idx, nchannels) ==
    IF M.exc # "none" \/ idx >= nchannels THEN M
    ELSE write_signal_channels(
             write_signal_channel(M, parent_block, parent_group, nix_name,
                                  nix_type, nix_definition, timedim, section,
                                  idx),
             parent_block, parent_group, nix_name, nix_type, nix_definition,
             timedim, section, idx + 1, nchannels)

\* parent_metadata.create_section(nix_name, nix_type+".metadata"), then the
\* signal's file_origin and annotations as properties of that section
signal_section(M, signal, parent_group, nix_name, nix_type) ==
    IF M.exc # "none" THEN M
    ELSE LET group_segment == Len(M.secs) + 1
         IN  add_annotations(
             IF heap[signal].file_origin = "" 
             THEN CreateSection(M, M.objs[parent_group].metadata, nix_name,
                                nix_type \o ".metadata")
             ELSE CreateProperty(
                      CreateSection(M, M.objs[parent_group].metadata,
                                    nix_name, nix_type \o ".metadata"),
                      group_segment, "file_origin", heap[signal].file_origin),
             heap[signal].annotations, group_segment)

\* self.neo_nix_map[id(signal)] = nix_data_arrays
map_returned(M, signal) ==
    IF M.exc # "none" THEN M ELSE SetMapped(M, signal, M.ret)

\* the loop over the columns, all pointing to the section made last, and
\* the entry in the map
signal_data_arrays(M, signal, parent_block, parent_group, nix_name, nix_type, timedim) ==
    IF M.exc # "none" THEN M
    ELSE map_returned(
             write_signal_channels(Return(M, <<>>), parent_block,
                 parent_group, nix_name, nix_type, heap[signal].description,
                 timedim, LastSection(M), 0, heap[signal].nchannels),
             signal)

\* the body write_analogsignal and write_irregularlysampledsignal share
write_signal(M, signal, parent_path, tag, nix_type, timedim) ==
    LET parent_group == get_object_at(M, parent_path)
        parent_block == get_object_at(M, <<parent_path[1]>>)
        nda == Len(Owned(M, parent_block, "data_array"))
        nix_name == NixName(signal, M.objs[parent_block].name, tag, nda)
    IN  signal_data_arrays(
        signal_section(
        get_or_init_metadata(
        Lookup(Lookup(M, parent_path), <<parent_path[1]>>),
        parent_group, parent_path),
        signal, parent_group, nix_name, nix_type),
        signal, parent_block, parent_group, nix_name, nix_type, timedim)

write_analogsignal(M, anasig, parent_path) ==
    write_signal(M, anasig, parent_path, "AnalogSignal", "neo.analogsignal",
                 "sampled")

write_irregularlysampledsignal(M, irsig, parent_path) ==
    write_signal(M, irsig, parent_path, "IrregularlySampledSignal",
                 "neo.irregularlysampledsignal", "range")

(* Epochs, events, spike trains. *)

\* nix_multi_tag.references.extend(NixIO._get_contained_signals(parent_group))
\* variant: the tag refers to every DataArray of the block of its group
refer_block_arrays(M, nix_multi_tag, parent_group) ==
    IF M.exc # "none" THEN M
    ELSE ExtendReferences(M, nix_multi_tag,
                          Owned(M, M.objs[parent_group].parent, "data_array"))

refer_contained_signals(M, nix_multi_tag, parent_group) ==
    IF M.exc # "none" THEN M
    ELSE ExtendReferences(M, nix_multi_tag,
                          get_contained_signals(M, parent_group))

write_epoch(M, ep, parent_path) ==
    LET parent_group == get_object_at(M, parent_path)
        parent_block == get_object_at(M, <<parent_path[1]>>)
        nmt == Len(M.objs[parent_group].multi_tags)
        nix_name == NixName(ep, M.objs[parent_group].name, "Epoch", nmt)
        times_da == NewId(M, 1)
        durations_da == NewId(M, 2)
        nix_multi_tag == NewId(M, 3)
        object_path == Append(parent_path, <<"multi_tag", nix_name>>)
    IN  Return(
        refer_contained_signals(
        copy_annotations(
        copy_file_origin(
        SetMapped(
        SetDefinition(
        AppendMultiTag(
        SetExtents(
        AppendDimension(
        CreateMultiTag(
        CreateDataArray(
        CreateDataArray(
        Lookup(Lookup(M, parent_path), <<parent_path[1]>>),
        PartName(nix_name, "times"), "neo.epoch.times", parent_block,
            heap[ep].times),
        PartName(nix_name, "durations"), "neo.epoch.durations", parent_block,
            heap[ep].durations),
        nix_name, "neo.epoch", parent_block, times_da),
        times_da, "set"),
        nix_multi_tag, durations_da),
        parent_group, nix_multi_tag),
        nix_multi_tag, heap[ep].description),
        ep, nix_multi_tag),
        ep, nix_multi_tag, object_path),
        ep, nix_multi_tag, object_path),
        nix_multi_tag, parent_group),
        nix_multi_tag)

write_event(M, ev, parent_path) ==
    LET parent_group == get_object_at(M, parent_path)
        parent_block == get_object_at(M, <<parent_path[1]>>)
        nmt == Len(M.objs[parent_group].multi_tags)
        nix_name == NixName(ev, M.objs[parent_group].name, "Event", nmt)
        times_da == NewId(M, 1)
        nix_multi_tag == NewId(M, 2)
        object_path == Append(parent_path, <<"multi_tag", nix_name>>)
    IN  Return(
        refer_contained_signals(
        copy_annotations(
        copy_file_origin(
        SetMapped(
        SetDefinition(
        AppendMultiTag(
        AppendDimension(
        CreateMultiTag(
        CreateDataArray(
        Lookup(Lookup(M, parent_path), <<parent_path[1]>>),
        PartName(nix_name, "times"), "neo.event.times", parent_block,
            heap[ev].times),
        nix_name, "neo.event", parent_block, times_da),
        times_da, "set"),
        parent_group, nix_multi_tag),
        nix_multi_tag, heap[ev].description),
        ev, nix_multi_tag),
        ev, nix_multi_tag, object_path),
        ev, nix_multi_tag, object_path),
        nix_multi_tag, parent_group),
        nix_multi_tag)

\* "if sptr.waveforms is not None:" and what it guards
write_waveforms(M, sptr, nix_name, nix_multi_tag, parent_block, object_path) ==
    IF M.exc # "none" \/ ~heap[sptr].waveforms THEN M
    ELSE LET wf_name == PartName(nix_name, "waveforms")
             waveforms_da == NewId(M, 1)
             wf_path == Append(object_path, <<"data_array", wf_name>>)
         IN  property_if(
             get_or_init_metadata(
             AppendDimension(
             AppendDimension(
             AppendDimension(
             CreateFeature(
             Create(M, "data_array", wf_name, "neo.waveforms", parent_block),
             nix_multi_tag, waveforms_da, "Indexed"),
             waveforms_da, "set"),
             waveforms_da, "set"),
             waveforms_da, "sampled"),
             waveforms_da, wf_path),
             Truthy(heap[sptr].left_sweep), waveforms_da, "left_sweep",
                 heap[sptr].left_sweep[1])

\* "if isinstance(parent_obj, nix.Group): ... elif isinstance(parent_obj,
\* nix.Source): ..."
attach_spiketrain(M, parent_obj, nix_multi_tag) ==
    IF M.exc # "none" THEN M
    ELSE IF M.objs[parent_obj].kind = "group"
        THEN AppendMultiTag(M, parent_obj, nix_multi_tag)
    ELSE IF M.objs[parent_obj].kind = "source"
        THEN AppendSource(M, nix_multi_tag, parent_obj)
    ELSE M

write_spiketrain(M, sptr, parent_path) ==
    LET parent_obj == get_object_at(M, parent_path)
        parent_block == get_object_at(M, <<parent_path[1]>>)
        nmt == Len(Owned(M, parent_block, "multi_tag"))
        nix_name == NixName(sptr, M.objs[parent_block].name, "SpikeTrain", nmt)
        times_da == NewId(M, 1)
        nix_multi_tag == NewId(M, 2)
        object_path == Append(parent_path, <<"multi_tag", nix_name>>)
    IN  Return(
        write_waveforms(
        create_property(
        property_if(
        property_if(
        copy_annotations(
        get_or_init_metadata(
        SetMapped(
        SetDefinition(
        attach_spiketrain(
        CreateMultiTag(
        CreateDataArray(
        Lookup(Lookup(M, parent_path), <<parent_path[1]>>),
        PartName(nix_name, "times"), "neo.epoch.times", parent_block,
            heap[sptr].times),
        nix_name, "neo.spiketrain", parent_block, times_da),
        parent_obj, nix_multi_tag),
        nix_multi_tag, heap[sptr].description),
        sptr, nix_multi_tag),
        nix_multi_tag, object_path),
        sptr, nix_multi_tag, object_path),
        heap[sptr].file_origin # "", nix_multi_tag, "file_origin",
            heap[sptr].file_origin),
        Truthy(heap[sptr].t_start), nix_multi_tag, "t_start",
            heap[sptr].t_start[1]),
        nix_multi_tag, "t_stop", heap[sptr].t_stop),
        sptr, nix_name, nix_multi_tag, parent_block, object_path),
        nix_multi_tag)

(* Units and recording channel groups. *)

\* "for nix_st in ...: nix_st.sources.append(parent_source);
\*                     nix_st.sources.append(nix_source)"
RECURSIVE refer_spiketrains(_, _, _, _)
refer_spiketrains(M, nix_sts, parent_source, nix_source) ==
    IF M.exc # "none" THEN M
    ELSE IF nix_sts = <<>> THEN M
    ELSE refer_spiketrains(
             AppendSource(AppendSource(M, Head(nix_sts), parent_source),
                          Head(nix_sts), nix_source),
             Tail(nix_sts), parent_source, nix_source)

\* the loop over self._get_mapped_objects(ut.spiketrains)
refer_unit_spiketrains(M, ut, parent_source, nix_source) ==
    IF M.exc # "none" THEN M
    ELSE IF ~\A k \in 1..Len(heap[ut].spiketrains) :
                 Mapped(M, heap[ut].spiketrains[k])
        THEN get_mapped_objects(M, heap[ut].spiketrains)
    ELSE refer_spiketrains(M,
             get_mapped_objects(M, heap[ut].spiketrains).ret,
             parent_source, nix_source)

write_unit(M, ut, parent_path) ==
    LET parent_source == get_object_at(M, parent_path)
        nsrc == Len(Owned(M, parent_source, "source"))
        nix_name == NixName(ut, M.objs[parent_source].name, "Unit", nsrc)
        nix_source == NewId(M, 1)
        object_path == Append(parent_path, <<"source", nix_name>>)
    IN  Return(
        refer_unit_spiketrains(
        copy_file_origin(
        copy_annotations(
        SetMapped(
        SetDefinition(
        Create(
        Lookup(M, parent_path),
        "source", nix_name, "neo.unit", parent_source),
        nix_source, heap[ut].description),
        ut, nix_source),
        ut, nix_source, object_path),
        ut, nix_source, object_path),
        ut, parent_source, nix_source),
        nix_source)

\* "if hasattr(rcg, 'coordinates'):" and what it guards
write_coordinates(M, rcg, nix_chan, chan_obj_path, idx) ==
    IF M.exc # "none" \/ ~heap[rcg].has_coordinates THEN M
    ELSE IF idx >= Len(heap[rcg].coordinates) THEN Raise(M, "IndexError")
    ELSE LET chan_coords == heap[rcg].coordinates[idx + 1]
         IN  create_property(
             create_property(
             get_or_init_metadata(M, nix_chan, chan_obj_path),
             nix_chan, "coordinates", chan_coords[1]),
             nix_chan, "coordinates.units", chan_coords[2])

\* one pass of "for idx, channel in enumerate(rcg.channel_indexes)"
write_channel(M, rcg, nix_source, nix_name, object_path, idx) ==
    LET names == heap[rcg].channel_names
        nix_chan_name == IF Len(names) # 0 THEN names[idx + 1]
                         ELSE IndexedName(nix_name, idx)
        nix_chan == NewId(M, 1)
        chan_obj_path == Append(object_path, <<"source", nix_chan_name>>)
    IN  write_coordinates(
        copy_file_origin(
        SetDefinition(
        Create(
        IF Len(names) # 0 /\ idx >= Len(names) THEN Raise(M, "IndexError")
        ELSE M,
        "source", nix_chan_name, "neo.recordingchannel", nix_source),
        nix_chan, heap[rcg].description),
        rcg, nix_chan, chan_obj_path),
        rcg, nix_chan, chan_obj_path, idx)

RECURSIVE write_channels(_, _, _, _, _, _)
write_channels(M, rcg, nix_source, nix_name, object_path, idx) ==
    IF M.exc # "none" \/ idx >= Len(heap[rcg].channel_indexes) THEN M
    ELSE write_channels(
             write_channel(M, rcg, nix_source, nix_name, object_path, idx),
             rcg, nix_source, nix_name, object_path, idx + 1)

\* "for unit in rcg.units: self.write_unit(unit, object_path)"
RECURSIVE write_units(_, _, _)
write_units(M, units, object_path) ==
    IF M.exc # "none" THEN M
    ELSE IF units = <<>> THEN M
    ELSE write_units(write_unit(M, Head(units), object_path), Tail(units),
                     object_path)

\* variant: only the first DataArray of a signal is wired
refer_data_arrays_first(M, das, nix_source) ==
    IF M.exc # "none" THEN M
    ELSE IF das = <<>> THEN M
    ELSE AppendSource(M, Head(das), nix_source)

\* "for da in nix_sigs: da.sources.append(nix_source)"
RECURSIVE refer_data_arrays(_, _, _)
refer_data_arrays(M, das, nix_source) ==
    IF M.exc # "none" THEN M
    ELSE IF das = <<>> THEN M
    ELSE refer_data_arrays(AppendSource(M, Head(das), nix_source), Tail(das),
                           nix_source)

\* "for nix_sigs in mapped: for da in nix_sigs: ..."
RECURSIVE refer_signals(_, _, _)
refer_signals(M, nix_sigs, nix_source) ==
    IF M.exc # "none" THEN M
    ELSE IF nix_sigs = <<>> THEN M
    ELSE refer_signals(refer_data_arrays(M, Head(nix_sigs), nix_source),
                       Tail(nix_sigs), nix_source)

\* variant: the signals that are in the map are wired, the others skipped
refer_rcg_signals_lenient(M, signals, nix_source) ==
    IF M.exc # "none" THEN M
    ELSE refer_signals(M,
             get_mapped_objects(M, SelectSeq(signals,
                                             LAMBDA e : Mapped(M, e))).ret,
             nix_source)

\* one of the two loops over self._get_mapped_objects(<signals of the rcg>)
refer_rcg_signals(M, signals, nix_source) ==
    IF M.exc # "none" THEN M
    ELSE IF ~\A k \in 1..Len(signals) : Mapped(M, signals[k])
        THEN get_mapped_objects(M, signals)
    ELSE refer_signals(M, get_mapped_objects(M, signals).ret, nix_source)

write_recordingchannelgroup(M, rcg, parent_path) ==
    LET parent_block == get_object_at(M, parent_path)
        nsources == Len(Owned(M, parent_block, "source"))
        nix_name == NixName(rcg, M.objs[parent_block].name,
                            "RecordingChannelGroup", nsources)
        nix_source == NewId(M, 1)
        object_path == Append(parent_path, <<"source", nix_name>>)
    IN  Return(
        refer_rcg_signals(
        refer_rcg_signals(
        write_units(
        write_channels(
        copy_annotations(
        copy_file_origin(
        SetMapped(
        SetDefinition(
        Create(
        Lookup(M, parent_path),
        "source", nix_name, "neo.recordingchannelgroup", parent_block),
        nix_source, heap[rcg].description),
        rcg, nix_source),
        rcg, nix_source, object_path),
        rcg, nix_source, object_path),
        rcg, nix_source, nix_name, object_path, 0),
        heap[rcg].units, object_path),
        heap[rcg].analogsignals, nix_source),
        heap[rcg].irregularlysampledsignals, nix_source),
        nix_source)

(* Segments and blocks. *)

RECURSIVE write_analogsignals(_, _, _)
write_analogsignals(M, signals, object_path) ==
    IF M.exc # "none" THEN M
    ELSE IF signals = <<>> THEN M
    ELSE write_analogsignals(
             write_analogsignal(M, Head(signals), object_path),
             Tail(signals), object_path)

RECURSIVE write_irregularlysampledsignals(_, _, _)
write_irregularlysampledsignals(M, signals, object_path) ==
    IF M.exc # "none" THEN M
    ELSE IF signals = <<>> THEN M
    ELSE write_irregularlysampledsignals(
             write_irregularlysampledsignal(M, Head(signals), object_path),
             Tail(signals), object_path)

RECURSIVE write_epochs(_, _, _)
write_epochs(M, epochs, object_path) ==
    IF M.exc # "none" THEN M
    ELSE IF epochs = <<>> THEN M
    ELSE write_epochs(write_epoch(M, Head(epochs), object_path),
                      Tail(epochs), object_path)

RECURSIVE write_events(_, _, _)
write_events(M, events, object_path) ==
    IF M.exc # "none" THEN M
    ELSE IF events = <<>> THEN M
    ELSE write_events(write_event(M, Head(events), object_path),
                      Tail(events), object_path)

RECURSIVE write_spiketrains(_, _, _)
write_spiketrains(M, spiketrains, object_path) ==
    IF M.exc # "none" THEN M
    ELSE IF spiketrains = <<>> THEN M
    ELSE write_spiketrains(
             write_spiketrain(M, Head(spiketrains), object_path),
             Tail(spiketrains), object_path)

write_segment(M, segment, parent_path) ==
    LET parent_block == get_object_at(M, parent_path)
        ngroups == Len(Owned(M, parent_block, "group"))
        nix_name == NixName(segment, M.objs[parent_block].name, "Segment",
                            ngroups)
        nix_group == NewId(M, 1)
        object_path == Append(parent_path, <<"group", nix_name>>)
    IN  Return(
        write_spiketrains(
        write_events(
        write_epochs(
        write_irregularlysampledsignals(
        write_analogsignals(
        copy_annotations(
        copy_file_origin(
        copy_file_datetime(
        SetMapped(
        SetDefinition(
        Create(
        Lookup(M, parent_path),
        "group", nix_name, "neo.segment", parent_block),
        nix_group, heap[segment].description),
        segment, nix_group),
        segment, nix_group, object_path),
        segment, nix_group, object_path),
        segment, nix_group, object_path),
        heap[segment].analogsignals, object_path),
        heap[segment].irregularlysampledsignals, object_path),
        heap[segment].epochs, object_path),
        heap[segment].events, object_path),
        heap[segment].spiketrains, object_path),
        nix_group)

RECURSIVE write_segments(_, _, _)
write_segments(M, segments, object_path) ==
    IF M.exc # "none" THEN M
    ELSE IF segments = <<>> THEN M
    ELSE write_segments(write_segment(M, Head(segments), object_path),
                        Tail(segments), object_path)

RECURSIVE write_recordingchannelgroups(_, _, _)
write_recordingchannelgroups(M, rcgs, object_path) ==
    IF M.exc # "none" THEN M
    ELSE IF rcgs = <<>> THEN M
    ELSE write_recordingchannelgroups(
             write_recordingchannelgroup(M, Head(rcgs), object_path),
             Tail(rcgs), object_path)

\* variant: the channel groups are written before the segments
write_block_groups_first(M, neo_block) ==
    LET nblocks == Len(Owned(M, 0, "block"))
        nix_name == BlockName(neo_block, nblocks)
        nix_block == NewId(M, 1)
        object_path == <<<<"block", nix_name>>>>
    IN  Return(
        write_segments(
        write_recordingchannelgroups(
        copy_annotations(
        copy_file_origin(
        copy_file_datetime(
        SetMapped(
        SetDefinition(
        Create(M, "block", nix_name, "neo.block", 0),
        nix_block, heap[neo_block].description),
        neo_block, nix_block),
        neo_block, nix_block, <<>>),
        neo_block, nix_block, <<>>),
        neo_block, nix_block, object_path),
        heap[neo_block].recordingchannelgroups, object_path),
        heap[neo_block].segments, object_path),
        nix_block)

write_block(M, neo_block) ==
    LET nblocks == Len(Owned(M, 0, "block"))
        nix_name == BlockName(neo_block, nblocks)
        nix_block == NewId(M, 1)
        object_path == <<<<"block", nix_name>>>>
    IN  Return(
        write_recordingchannelgroups(
        write_segments(
        copy_annotations(
        copy_file_origin(
        copy_file_datetime(
        SetMapped(
        SetDefinition(
        Create(M, "block", nix_name, "neo.block", 0),
        nix_block, heap[neo_block].description),
        neo_block, nix_block),
        neo_block, nix_block, <<>>),
        neo_block, nix_block, <<>>),
        neo_block, nix_block, object_path),
        heap[neo_block].segments, object_path),
        heap[neo_block].recordingchannelgroups, object_path),
        nix_block)

\* variant: the new block goes to the front of the list
collect_prepended(M, nix_blocks) ==
    IF M.exc # "none" THEN M ELSE Return(M, <<M.ret>> \o nix_blocks)

\* nix_blocks.append(<the block write_block returned>); M.ret is that block
\* and nix_blocks the list so far
collect(M, nix_blocks) ==
    IF M.exc # "none" THEN M ELSE Return(M, Append(nix_blocks, M.ret))

\* "for nb in neo_blocks: nix_blocks.append(self.write_block(nb))"; between
\* passes M.ret is nix_blocks
RECURSIVE write_blocks(_, _)
write_blocks(M, neo_blocks) ==
    IF M.exc # "none" THEN M
    ELSE IF neo_blocks = <<>> THEN M
    ELSE write_blocks(collect(write_block(M, Head(neo_blocks)), M.ret),
                      Tail(neo_blocks))

write_all_blocks(M, neo_blocks) == write_blocks(Return(M, <<>>), neo_blocks)

----------------------------------------------------------------------------
(* The caller's Neo objects.                                               *)

MaxChannels == 2   \* columns of the signal whose width varies
MaxCalls == 2      \* calls made on one mapper

Blocks == {"blk1", "blk2"}
Segments == {"seg1", "seg2", "seg3"}
ChannelGroups == {"rcg1", "rcg2"}
Units == {"unit1", "unit2"}
AnalogSignals == {"asig1", "asig2"}
IrregularSignals == {"isig1"}
Epochs == {"ep1"}
Events == {"ev1"}
SpikeTrains == {"st1", "st2"}

Containers == Blocks \cup Segments \cup ChannelGroups \cup Units
Leaves == AnalogSignals \cup IrregularSignals \cup Epochs \cup Events
              \cup SpikeTrains
Entities == Containers \cup Leaves

\* a Neo object with nothing set
NeoObject ==
    [name |-> "", description |-> "", file_origin |-> "",
     file_datetime |-> <<>>, annotations |-> <<>>,
     segments |-> <<>>, recordingchannelgroups |-> <<>>,
     analogsignals |-> <<>>, irregularlysampledsignals |-> <<>>,
     epochs |-> <<>>, events |-> <<>>, spiketrains |-> <<>>, units |-> <<>>,
     channel_indexes |-> <<>>, channel_names |-> <<>>,
     has_coordinates |-> FALSE, coordinates |-> <<>>,
     nchannels |-> 0, times |-> <<>>, durations |-> <<>>,
     t_start |-> <<0>>, t_stop |-> 10,
     waveforms |-> FALSE, left_sweep |-> <<>>]

\* which objects carry a name, per naming scheme
Named(naming) ==
    CASE naming = "anonymous"  -> {}
      [] naming = "named"      -> Entities
      [] naming = "containers" -> Containers
      [] naming = "leaves"     -> Leaves

\* which objects carry a file_origin and annotations, per scheme
Annotated(annotating) ==
    CASE annotating = "none"   -> {}
      [] annotating = "leaves" -> Leaves \cup Units
      [] annotating = "all"    -> Entities

\* the containment and the cross-references, per shape
Shape(shape, e) ==
    CASE e = "blk1" ->
           [NeoObject EXCEPT !.segments = <<"seg1", "seg2">>,
                             !.recordingchannelgroups = <<"rcg1">>]
      [] e = "blk2" ->
           IF shape = "bare" THEN NeoObject
           ELSE [NeoObject EXCEPT !.segments = <<"seg3">>,
                                  !.recordingchannelgroups = <<"rcg2">>]
      [] e = "seg1" ->
           [NeoObject EXCEPT !.analogsignals =
                                 IF shape = "signal_only" THEN <<"asig1">>
                                 ELSE <<"asig1", "asig2">>,
                             !.irregularlysampledsignals =
                                 IF shape = "irregular_only" THEN <<>>
                                 ELSE <<"isig1">>,
                             !.epochs = <<"ep1">>,
                             !.events = <<"ev1">>,
                             !.spiketrains = <<"st1">>]
      [] e = "seg2" ->
           [NeoObject EXCEPT !.spiketrains =
                                 IF shape = "shared" THEN <<"st1">>
                                 ELSE <<>>]
      [] e = "seg3" ->
           [NeoObject EXCEPT !.spiketrains =
                                 IF shape = "unit_only" THEN <<>>
                                 ELSE IF shape = "cross" THEN <<"st2", "st1">>
                                 ELSE <<"st2">>]
      [] e = "rcg1" ->
           [NeoObject EXCEPT !.channel_indexes = <<1, 2>>,
                             !.units = <<"unit1", "unit2">>,
                             !.analogsignals =
                                 IF shape = "twice" THEN <<"asig1", "asig1">>
                                 ELSE IF shape = "signal_only"
                                     THEN <<"asig1", "asig2">>
                                 ELSE <<"asig1">>,
                             !.irregularlysampledsignals = <<"isig1">>]
      [] e = "rcg2" ->
           [NeoObject EXCEPT !.channel_indexes =
                                 IF shape = "short_names" THEN <<7, 8>>
                                 ELSE <<7>>,
                             !.channel_names = <<"ch7">>,
                             !.analogsignals =
                                 IF shape = "foreign" THEN <<"asig1">>
                                 ELSE <<>>]
      [] e = "unit1" ->
           [NeoObject EXCEPT !.spiketrains = <<"st1">>]
      [] e = "unit2" ->
           [NeoObject EXCEPT !.spiketrains =
                                 IF shape = "twice" THEN <<"st1">>
                                 ELSE IF shape = "unit_only" THEN <<"st2">>
                                 ELSE <<>>]
      [] e = "asig2" -> [NeoObject EXCEPT !.nchannels = 1]
      [] e = "isig1" -> [NeoObject EXCEPT !.nchannels = 2]
      [] e = "ep1" ->
           [NeoObject EXCEPT !.times = <<1, 4>>, !.durations = <<2, 3>>]
      [] e = "ev1" -> [NeoObject EXCEPT !.times = <<3>>]
      [] e = "st1" ->
           [NeoObject EXCEPT !.times = <<6, 8>>,
                             !.t_start = <<5>>, !.waveforms = TRUE,
                             !.left_sweep = <<1>>]
      [] e = "st2" -> [NeoObject EXCEPT !.times = <<2>>]
      [] OTHER -> NeoObject

Shapes == {"plain", "shared", "cross", "foreign", "twice", "unit_only",
           "signal_only", "bare", "short_names", "irregular_only"}

\* one object graph: the shape, then names, origins and annotations, and the
\* width of asig1
Build(naming, annotating, width, shape) ==
    [e \in Entities |->
        [Shape(shape, e) EXCEPT
            !.name = IF e \in Named(naming) THEN e ELSE "",
            !.description = IF e \in {"seg2", "st2"} THEN ""
                            ELSE "about " \o e,
            !.file_origin = IF e \in Annotated(annotating)
                            THEN "/data/" \o e ELSE "",
            !.annotations = IF e \in Annotated(annotating)
                            THEN <<<<"key", "value of " \o e>>>> ELSE <<>>,
            !.file_datetime = IF annotating = "all" /\ e \in {"blk1", "seg1"}
                              THEN <<1000, 250>> ELSE <<>>,
            !.nchannels = IF e = "asig1" THEN width ELSE @]]

Heaps ==
    {Build(n, a, 1, "plain") :
        n \in {"anonymous", "named", "containers", "leaves"},
        a \in {"none", "leaves", "all"}}
    \cup {Build(n, "leaves", w, "plain") :
        n \in {"anonymous", "named"}, w \in 0..MaxChannels}
    \cup {Build(n, "leaves", 1, s) : n \in {"anonymous", "named"}, s \in Shapes}

----------------------------------------------------------------------------
(* The mapper and the calls made on it.                                    *)

\* the path the caller hands over for an object it has a handle on
RECURSIVE PathOf(_, _)
PathOf(M, obj) ==
    IF M.objs[obj].kind = "block" THEN <<<<"block", M.objs[obj].name>>>>
    ELSE Append(PathOf(M, M.objs[obj].parent),
                <<M.objs[obj].kind, M.objs[obj].name>>)

Mapper == [objs |-> nix_objects, secs |-> nix_sections, map |-> neo_nix_map,
           exc |-> "none", ret |-> <<>>]

\* variant: a call that fails leaves the file and the table as they were
Finish_rolled_back(M, method, argument) ==
    /\ nix_objects' = IF M.exc = "none" THEN M.objs ELSE nix_objects
    /\ nix_sections' = IF M.exc = "none" THEN M.secs ELSE nix_sections
    /\ neo_nix_map' = IF M.exc = "none" THEN M.map ELSE neo_nix_map
    /\ raised' = M.exc
    /\ returned' = IF M.exc = "none" THEN M.ret ELSE <<>>
    /\ called' = <<method, argument>>
    /\ calls' = calls + 1
    /\ UNCHANGED <<heap, previous>>

\* the call ends: whatever it wrote stays written
Finish(M, method, argument) ==
    /\ nix_objects' = M.objs
    /\ nix_sections' = M.secs
    /\ neo_nix_map' = M.map
    /\ raised' = M.exc
    /\ returned' = IF M.exc = "none" THEN M.ret ELSE <<>>
    /\ called' = <<method, argument>>
    /\ calls' = calls + 1
    /\ UNCHANGED <<heap, previous>>

\* the sequences of blocks handed to write_all_blocks
BlockLists ==
    {<<>>} \cup {<<b>> : b \in Blocks} \cup {<<a, b>> : a, b \in Blocks}

\* the owners of `e` in collection `field` whose sink object the caller can
\* address
OwnersOf(e, owners, field) ==
    {o \in owners : o \in DOMAIN neo_nix_map
                    /\ \E k \in 1..Len(heap[o][field]) : heap[o][field][k] = e}

Init ==
    /\ heap \in Heaps
    /\ nix_objects = <<>>
    /\ nix_sections = <<>>
    /\ neo_nix_map = <<>>
    /\ raised = "none"
    /\ returned = <<>>
    /\ called = <<>>
    /\ calls = 0
    /\ previous = <<>>

WriteAllBlocks ==
    /\ calls < MaxCalls
    /\ \E neo_blocks \in BlockLists :
           Finish(write_all_blocks(Mapper, neo_blocks), "write_all_blocks",
                  neo_blocks)

WriteBlock ==
    /\ calls < MaxCalls
    /\ \E neo_block \in Blocks :
           Finish(write_block(Mapper, neo_block), "write_block", neo_block)

WriteSegment ==
    /\ calls < MaxCalls
    /\ \E segment \in Segments :
         \E owner \in OwnersOf(segment, Blocks, "segments") :
           Finish(write_segment(Mapper, segment,
                                PathOf(Mapper, neo_nix_map[owner])),
                  "write_segment", segment)

WriteRecordingChannelGroup ==
    /\ calls < MaxCalls
    /\ \E rcg \in ChannelGroups :
         \E owner \in OwnersOf(rcg, Blocks, "recordingchannelgroups") :
           Finish(write_recordingchannelgroup(Mapper, rcg,
                      PathOf(Mapper, neo_nix_map[owner])),
                  "write_recordingchannelgroup", rcg)

WriteAnalogSignal ==
    /\ calls < MaxCalls
    /\ \E anasig \in AnalogSignals :
         \E owner \in OwnersOf(anasig, Segments, "analogsignals") :
           Finish(write_analogsignal(Mapper, anasig,
                      PathOf(Mapper, neo_nix_map[owner])),
                  "write_analogsignal", anasig)

WriteIrregularlySampledSignal ==
    /\ calls < MaxCalls
    /\ \E irsig \in IrregularSignals :
         \E owner \in OwnersOf(irsig, Segments, "irregularlysampledsignals") :
           Finish(write_irregularlysampledsignal(Mapper, irsig,
                      PathOf(Mapper, neo_nix_map[owner])),
                  "write_irregularlysampledsignal", irsig)

WriteEpoch ==
    /\ calls < MaxCalls
    /\ \E ep \in Epochs :
         \E owner \in OwnersOf(ep, Segments, "epochs") :
           Finish(write_epoch(Mapper, ep, PathOf(Mapper, neo_nix_map[owner])),
                  "write_epoch", ep)

WriteEvent ==
    /\ calls < MaxCalls
    /\ \E ev \in Events :
         \E owner \in OwnersOf(ev, Segments, "events") :
           Finish(write_event(Mapper, ev, PathOf(Mapper, neo_nix_map[owner])),
                  "write_event", ev)

WriteSpikeTrain ==
    /\ calls < MaxCalls
    /\ \E sptr \in SpikeTrains :
         \E owner \in OwnersOf(sptr, Segments \cup Units, "spiketrains") :
           Finish(write_spiketrain(Mapper, sptr,
                      PathOf(Mapper, neo_nix_map[owner])),
                  "write_spiketrain", sptr)

WriteUnit ==
    /\ calls < MaxCalls
    /\ \E ut \in Units :
         \E owner \in OwnersOf(ut, ChannelGroups, "units") :
           Finish(write_unit(Mapper, ut, PathOf(Mapper, neo_nix_map[owner])),
                  "write_unit", ut)

Next ==
    \/ WriteAllBlocks
    \/ WriteBlock
    \/ WriteSegment
    \/ WriteRecordingChannelGroup
    \/ WriteAnalogSignal
    \/ WriteIrregularlySampledSignal
    \/ WriteEpoch
    \/ WriteEvent
    \/ WriteSpikeTrain
    \/ WriteUnit

Spec == Init /\ [][Next]_vars

----------------------------------------------------------------------------
(* One export repeated: the file is opened again, which empties it
   (nix.FileMode.Overwrite), by a new mapper with an empty identity table. *)

\* write_all_blocks as the only call made on a mapper
WriteAllBlocksOnce ==
    /\ calls = 0
    /\ \E neo_blocks \in BlockLists :
           Finish(write_all_blocks(Mapper, neo_blocks), "write_all_blocks",
                  neo_blocks)

\* variant: the file is opened without being emptied
Open_keeping_file ==
    /\ calls = 1 /\ previous = <<>>
    /\ previous' = [called |-> called, raised |-> raised,
                    nix_objects |-> nix_objects,
                    nix_sections |-> nix_sections]
    /\ neo_nix_map' = <<>>
    /\ raised' = "none"
    /\ returned' = <<>>
    /\ called' = <<>>
    /\ calls' = 0
    /\ UNCHANGED <<heap, nix_objects, nix_sections>>

\* NixIO(filename) once more on the same file, after one call on the first
\* mapper
Open ==
    /\ calls = 1 /\ previous = <<>>
    /\ previous' = [called |-> called, raised |-> raised,
                    nix_objects |-> nix_objects,
                    nix_sections |-> nix_sections]
    /\ nix_objects' = <<>>
    /\ nix_sections' = <<>>
    /\ neo_nix_map' = <<>>
    /\ raised' = "none"
    /\ returned' = <<>>
    /\ called' = <<>>
    /\ calls' = 0
    /\ UNCHANGED heap

NextRepeated ==
    \/ WriteAllBlocksOnce
    \/ Open

SpecRepeated == Init /\ [][NextRepeated]_vars

----------------------------------------------------------------------------
(* Properties of the written file.                                         *)

Signals == AnalogSignals \cup IrregularSignals

\* the sink objects the identity table holds for a mapped entity
SinkObjects(e) ==
    IF e \in Signals THEN Range(neo_nix_map[e]) ELSE {neo_nix_map[e]}

\* the last call, when there was one
LastCall(method) == called # <<>> /\ called[1] = method

HasProperty(sec, name, value) ==
    \E k \in 1..Len(nix_sections[sec].props) :
        nix_sections[sec].props[k] = <<name, value>>

\* C1: every mapped entity's sink object carries the entity's description
\* as its definition, and the entity's name when it has one; the k-th
\* DataArray of a named signal is called "<name>.<k>", k counted from zero.
C1_NameAndDefinitionKept ==
    \A e \in DOMAIN neo_nix_map :
        /\ \A o \in SinkObjects(e) :
               nix_objects[o].definition = heap[e].description
        /\ heap[e].name # "" =>
               IF e \in Signals
               THEN \A k \in 1..Len(neo_nix_map[e]) :
                        nix_objects[neo_nix_map[e][k]].name =
                            heap[e].name \o "." \o ToString(k - 1)
               ELSE nix_objects[neo_nix_map[e]].name = heap[e].name

\* a named block was written whole, with its named two-column signal
C1_Witness ==
    /\ LastCall("write_block") /\ raised = "none"
    /\ called[2] = "blk1" /\ heap["blk1"].name = "blk1"
    /\ "isig1" \in DOMAIN neo_nix_map
    /\ heap["isig1"].name = "isig1"
    /\ Len(neo_nix_map["isig1"]) = 2
    /\ "seg1" \in DOMAIN neo_nix_map

\* C2: for every mapped entity that has a file_origin or annotations, each
\* of its sink objects has a metadata section holding "file_origin" with
\* the entity's file_origin and every annotation key with its value.
C2_OriginAndAnnotationsKept ==
    \A e \in DOMAIN neo_nix_map :
        (heap[e].file_origin # "" \/ heap[e].annotations # <<>>) =>
            \A o \in SinkObjects(e) :
                /\ nix_objects[o].metadata # 0
                /\ heap[e].file_origin # "" =>
                       HasProperty(nix_objects[o].metadata, "file_origin",
                                   heap[e].file_origin)
                /\ \A k \in 1..Len(heap[e].annotations) :
                       HasProperty(nix_objects[o].metadata,
                                   heap[e].annotations[k][1],
                                   heap[e].annotations[k][2])

\* a block was written whole in which every kind of entity is annotated
C2_Witness ==
    /\ LastCall("write_block") /\ raised = "none" /\ called[2] = "blk1"
    /\ \A e \in {"blk1", "seg1", "rcg1", "unit1", "asig1", "isig1", "ep1",
                 "ev1", "st1"} :
           /\ e \in DOMAIN neo_nix_map
           /\ heap[e].annotations # <<>>
           /\ heap[e].file_origin # ""
    /\ heap["asig1"].nchannels > 0

\* the DataArrays that point to a section
PointingTo(sec) ==
    {i \in 1..Len(nix_objects) :
        nix_objects[i].kind = "data_array" /\ nix_objects[i].metadata = sec}

\* C3: a mapped signal of C columns has C distinct DataArrays, all in one
\* sink block and all appended to one Group of that block, and all of them
\* point to one section that no other DataArray points to.
C3_ChannelSplit ==
    \A e \in (DOMAIN neo_nix_map) \cap Signals :
        LET das == neo_nix_map[e]
        IN  /\ Len(das) = heap[e].nchannels
            /\ Cardinality(Range(das)) = heap[e].nchannels
            /\ \A k \in 1..Len(das) : nix_objects[das[k]].kind = "data_array"
            /\ das # <<>> =>
                 /\ nix_objects[das[1]].metadata # 0
                 /\ PointingTo(nix_objects[das[1]].metadata) = Range(das)
                 /\ \E g \in 1..Len(nix_objects) :
                        /\ nix_objects[g].kind = "group"
                        /\ Range(das) \subseteq Range(nix_objects[g].data_arrays)
                        /\ \A k \in 1..Len(das) :
                               nix_objects[das[k]].parent = nix_objects[g].parent

\* a signal of MaxChannels columns and a signal of two were written
C3_Witness ==
    /\ raised = "none"
    /\ {"asig1", "isig1"} \subseteq DOMAIN neo_nix_map
    /\ heap["asig1"].nchannels = MaxChannels
    /\ Len(neo_nix_map["asig1"]) = MaxChannels
    /\ Len(neo_nix_map["isig1"]) = 2

\* the object whose path is the path of `o` without its last step: the
\* owner of a Group or Source; for a MultiTag the Group it was appended to,
\* or else the Source it was written under; for a DataArray the Group it
\* was appended to, or else the MultiTag it is a feature of
StructuralParent(o) ==
    LET holders(field) ==
            {g \in 1..Len(nix_objects) :
                /\ nix_objects[g].kind = "group"
                /\ o \in Range(nix_objects[g][field])}
        featuring ==
            {m \in 1..Len(nix_objects) :
                \E k \in 1..Len(nix_objects[m].features) :
                    nix_objects[m].features[k][1] = o}
    IN  CASE nix_objects[o].kind \in {"group", "source"} ->
                 nix_objects[o].parent
          [] nix_objects[o].kind = "multi_tag" ->
                 IF holders("multi_tags") # {}
                 THEN CHOOSE g \in holders("multi_tags") : TRUE
                 ELSE nix_objects[o].sources[1]
          [] nix_objects[o].kind = "data_array" ->
                 IF holders("data_arrays") # {}
                 THEN CHOOSE g \in holders("data_arrays") : TRUE
                 ELSE CHOOSE m \in featuring : TRUE

\* C4: the section of a sink object lies directly under the section of the
\* object's structural parent, which therefore has one; the section of a
\* Block lies directly under the file.
C4_MetadataMirrorsStructure ==
    \A o \in 1..Len(nix_objects) :
        nix_objects[o].metadata # 0 =>
            IF nix_objects[o].kind = "block"
            THEN nix_sections[nix_objects[o].metadata].parent = 0
            ELSE /\ nix_objects[StructuralParent(o)].metadata # 0
                 /\ nix_sections[nix_objects[o].metadata].parent =
                        nix_objects[StructuralParent(o)].metadata

\* only leaves are annotated, and the sections of their containers exist
\* all the same, down to the section of a waveform array
C4_Witness ==
    /\ raised = "none"
    /\ heap["seg1"].annotations = <<>> /\ heap["blk1"].annotations = <<>>
    /\ "st1" \in DOMAIN neo_nix_map
    /\ \E d \in 1..Len(nix_objects) :
           /\ nix_objects[d].type = "neo.waveforms"
           /\ nix_objects[d].metadata # 0
           /\ StructuralParent(d) = neo_nix_map["st1"]
    /\ nix_objects[neo_nix_map["seg1"]].metadata # 0
    /\ nix_objects[neo_nix_map["blk1"]].metadata # 0

\* what a call covers: the blocks it writes, and the segments, channel
\* groups and units it writes directly or through them
BlocksOf(call) ==
    CASE call[1] = "write_all_blocks" -> Range(call[2])
      [] call[1] = "write_block" -> {call[2]}
      [] OTHER -> {}

SegmentsOf(call) ==
    UNION {Range(heap[b].segments) : b \in BlocksOf(call)}
        \cup (IF call[1] = "write_segment" THEN {call[2]} ELSE {})

ChannelGroupsOf(call) ==
    UNION {Range(heap[b].recordingchannelgroups) : b \in BlocksOf(call)}
        \cup (IF call[1] = "write_recordingchannelgroup" THEN {call[2]}
              ELSE {})

UnitsOf(call) ==
    UNION {Range(heap[r].units) : r \in ChannelGroupsOf(call)}
        \cup (IF call[1] = "write_unit" THEN {call[2]} ELSE {})

\* what the segments of a call hold in one of their collections
HeldBy(call, field) == UNION {Range(heap[s][field]) : s \in SegmentsOf(call)}

\* the step gave `e` a sink object of its own
NewlyMapped(e) ==
    /\ e \in DOMAIN neo_nix_map'
    /\ neo_nix_map'[e] > Len(nix_objects)

\* C5: after write_all_blocks has returned, the MultiTag of every spike
\* train that a written Unit lists and a written Segment holds has the
\* Source of the Unit and the Source of the Unit's channel group among its
\* sources.
C5_SpikeTrainSourcesComplete ==
    (LastCall("write_all_blocks") /\ raised = "none") =>
        \A u \in Units \cap DOMAIN neo_nix_map :
            \A st \in Range(heap[u].spiketrains) \cap DOMAIN neo_nix_map :
                (\E seg \in Segments \cap DOMAIN neo_nix_map :
                     st \in Range(heap[seg].spiketrains)) =>
                    {neo_nix_map[u], nix_objects[neo_nix_map[u]].parent}
                        \subseteq Range(nix_objects[neo_nix_map[st]].sources)

\* C6: a call that reaches a Unit one of whose spike trains is not in the
\* identity table, and is not written by the call through a Segment either,
\* does not return normally; once the Unit's Source is made, the error is
\* the KeyError of _get_mapped_object.
C6_UnresolvedSpikeTrainRaises ==
    [][\A u \in UnitsOf(called') :
           (\E st \in Range(heap[u].spiketrains) :
                /\ st \notin DOMAIN neo_nix_map
                /\ st \notin HeldBy(called', "spiketrains"))
           => /\ raised' # "none"
              /\ NewlyMapped(u) => raised' = "KeyError"]_vars

\* write_block got as far as a Unit whose spike train no Segment holds
C6_Witness ==
    /\ LastCall("write_block") /\ raised = "KeyError"
    /\ "unit2" \in DOMAIN neo_nix_map
    /\ "st2" \in Range(heap["unit2"].spiketrains)
    /\ "st2" \notin DOMAIN neo_nix_map

\* C7: a call that reaches a channel group one of whose signals is not in
\* the identity table, and is not written by the call through a Segment
\* either, does not return normally; once the group's Source is made, the
\* error is the KeyError of _get_mapped_object.
C7_UnresolvedSignalRaises ==
    [][\A rcg \in ChannelGroupsOf(called') :
           (\E sig \in Range(heap[rcg].analogsignals)
                           \cup Range(heap[rcg].irregularlysampledsignals) :
                /\ sig \notin DOMAIN neo_nix_map
                /\ sig \notin HeldBy(called', "analogsignals")
                /\ sig \notin HeldBy(called', "irregularlysampledsignals"))
           => /\ raised' # "none"
              /\ NewlyMapped(rcg) => raised' = "KeyError"]_vars

\* write_block wrote the group's channels and units, then met the signal
\* that no Segment holds
C7_Witness ==
    /\ LastCall("write_block") /\ raised = "KeyError"
    /\ {"rcg1", "unit1", "unit2", "asig1"} \subseteq DOMAIN neo_nix_map
    /\ "asig2" \in Range(heap["rcg1"].analogsignals)
    /\ "asig2" \notin DOMAIN neo_nix_map

\* no two objects of one kind under one parent, and no two sections under
\* one parent, have the same name
SiblingNamesUnique ==
    /\ \A i, j \in 1..Len(nix_objects) :
           (/\ i # j
            /\ nix_objects[i].kind = nix_objects[j].kind
            /\ nix_objects[i].parent = nix_objects[j].parent)
           => nix_objects[i].name # nix_objects[j].name
    /\ \A i, j \in 1..Len(nix_sections) :
           (i # j /\ nix_sections[i].parent = nix_sections[j].parent)
           => nix_sections[i].name # nix_sections[j].name

C9_AnonymousWriteMeetsNoCollision ==
    (/\ LastCall("write_all_blocks") /\ calls = 1
     /\ \A e \in Entities : heap[e].name = "")
    => raised # "DuplicateName"

\* C10: when no segment has a name, the i-th Group of every sink Block, in
\* writing order and counted from zero, is called "<block name>.Segment<i>";
\* a block written whole has one Group per segment.
C10_UnnamedSegmentsNumbered ==
    (\A seg \in Segments : heap[seg].name = "") =>
        /\ \A b \in 1..Len(nix_objects) :
               nix_objects[b].kind = "block" =>
                   \A i \in 1..Len(Owned(Mapper, b, "group")) :
                       nix_objects[Owned(Mapper, b, "group")[i]].name =
                           nix_objects[b].name \o ".Segment"
                               \o ToString(i - 1)
        /\ (LastCall("write_block") /\ calls = 1 /\ raised = "none") =>
               Len(Owned(Mapper, returned, "group")) =
                   Len(heap[called[2]].segments)

\* three unnamed segments were written under one block
C10_Witness ==
    /\ \A seg \in Segments : heap[seg].name = ""
    /\ raised = "none"
    /\ \E b \in 1..Len(nix_objects) :
           /\ nix_objects[b].kind = "block"
           /\ Len(Owned(Mapper, b, "group")) = 3

ChildSources(src, type) ==
    SelectSeq(Owned(Mapper, src, "source"),
              LAMBDA o : nix_objects[o].type = type)

\* the name write_recordingchannelgroup gives the channel at position idx
ChannelName(rcg, src, idx) ==
    IF Len(heap[rcg].channel_names) # 0 THEN heap[rcg].channel_names[idx + 1]
    ELSE nix_objects[src].name \o "." \o ToString(idx)

\* the Source of a channel group has one "neo.recordingchannel" child per
\* entry of channel_indexes, in that order, and one "neo.unit" child per Unit
ChannelSourcesCounted ==
    (LastCall("write_recordingchannelgroup") /\ raised = "none") =>
        LET rcg == called[2]
            chans == ChildSources(returned, "neo.recordingchannel")
            units == ChildSources(returned, "neo.unit")
        IN  /\ Len(chans) = Len(heap[rcg].channel_indexes)
            /\ \A i \in 1..Len(chans) :
                   nix_objects[chans[i]].name =
                       ChannelName(rcg, returned, i - 1)
            /\ Len(units) = Len(heap[rcg].units)
            /\ \A i \in 1..Len(units) :
                   units[i] = neo_nix_map[heap[rcg].units[i]]

\* C12: after write_recordingchannelgroup has returned, the Source of the
\* channel group has exactly one child Source of type "neo.recordingchannel"
\* per entry of channel_indexes, in the same order, the metadata section of
\* the i-th of them holds a property "index" equal to channel_indexes[i], and
\* the Source has exactly one child Source of type "neo.unit" per Unit.
C12_ChannelSourcesIndexed ==
    (LastCall("write_recordingchannelgroup") /\ raised = "none") =>
        LET rcg == called[2]
            chans == ChildSources(returned, "neo.recordingchannel")
        IN  /\ ChannelSourcesCounted
            /\ \A i \in 1..Len(chans) :
                   /\ nix_objects[chans[i]].metadata # 0
                   /\ HasProperty(nix_objects[chans[i]].metadata, "index",
                                  heap[rcg].channel_indexes[i])

\* the Epochs and Events of a segment, and its signals
TaggedBy(seg) == Range(heap[seg].epochs) \cup Range(heap[seg].events)

SignalsOf(seg) ==
    Range(heap[seg].analogsignals)
        \cup Range(heap[seg].irregularlysampledsignals)

\* C13: after write_block has returned, for every Segment of the block and
\* every Epoch or Event of that segment, the references of the Epoch's or
\* Event's MultiTag contain every DataArray of every AnalogSignal and
\* IrregularlySampledSignal of the same segment.
C13_ReferencesBackFilled ==
    (LastCall("write_block") /\ raised = "none") =>
        \A seg \in Range(heap[called[2]].segments) :
            \A t \in TaggedBy(seg) :
                \A sig \in SignalsOf(seg) :
                    Range(neo_nix_map[sig])
                        \subseteq Range(nix_objects[neo_nix_map[t]].references)

\* a block was written whose first segment has an Epoch, an Event, two
\* regularly sampled signals and a two-column irregularly sampled one
C13_Witness ==
    /\ LastCall("write_block") /\ raised = "none" /\ called[2] = "blk1"
    /\ heap["asig1"].nchannels = MaxChannels
    /\ heap["seg1"].analogsignals = <<"asig1", "asig2">>
    /\ Len(nix_objects[neo_nix_map["ep1"]].references) = MaxChannels + 3
    /\ Len(nix_objects[neo_nix_map["ev1"]].references) = MaxChannels + 3

\* the signals a channel group lists
ListedBy(rcg) ==
    Range(heap[rcg].analogsignals)
        \cup Range(heap[rcg].irregularlysampledsignals)

\* C14: after write_block has returned, for every channel group of the block
\* and every AnalogSignal or IrregularlySampledSignal the group lists, each
\* DataArray of that signal has the Source of the group among its sources.
C14_SignalsPointToGroup ==
    (LastCall("write_block") /\ raised = "none") =>
        \A rcg \in Range(heap[called[2]].recordingchannelgroups) :
            \A sig \in ListedBy(rcg) :
                \A da \in Range(neo_nix_map[sig]) :
                    neo_nix_map[rcg] \in Range(nix_objects[da].sources)

\* a block was written whose channel group lists a signal of MaxChannels
\* columns and an irregularly sampled one of two
C14_Witness ==
    /\ LastCall("write_block") /\ raised = "none" /\ called[2] = "blk1"
    /\ heap["rcg1"].analogsignals = <<"asig1">>
    /\ heap["rcg1"].irregularlysampledsignals = <<"isig1">>
    /\ Len(neo_nix_map["asig1"]) = MaxChannels
    /\ Len(neo_nix_map["isig1"]) = 2
    /\ \A da \in Range(neo_nix_map["asig1"]) \cup Range(neo_nix_map["isig1"]) :
           nix_objects[da].sources = <<neo_nix_map["rcg1"]>>

\* nix_file.blocks of a file content
FileBlocks(objs) == Owned([objs |-> objs], 0, "block")

\* what write_block returns for each block of a list when it is called on
\* them one after the other
RECURSIVE ReturnsOf(_, _)
ReturnsOf(M, neo_blocks) ==
    IF neo_blocks = <<>> THEN <<>>
    ELSE <<write_block(M, Head(neo_blocks)).ret>>
             \o ReturnsOf(write_block(M, Head(neo_blocks)), Tail(neo_blocks))

\* C15: a write_all_blocks call on n blocks that returns, returns a list of
\* n sink Blocks, the i-th of which is the Block write_block returns for the
\* i-th block of the list, and the blocks of the file are those it had
\* before followed by these n.
C15_OneSinkBlockPerBlock ==
    [][(called' # <<>> /\ called'[1] = "write_all_blocks" /\ raised' = "none")
       => /\ Len(returned') = Len(called'[2])
          /\ returned' = ReturnsOf(Mapper, called'[2])
          /\ \A i \in 1..Len(returned') :
                 /\ nix_objects'[returned'[i]].kind = "block"
                 /\ nix_objects'[returned'[i]].type = "neo.block"
                 /\ nix_objects'[returned'[i]].definition =
                        heap[called'[2][i]].description
          /\ FileBlocks(nix_objects') = FileBlocks(nix_objects) \o returned'
      ]_vars

\* two blocks were written by one write_all_blocks call into a file that
\* already had two
C15_Witness ==
    /\ LastCall("write_all_blocks") /\ raised = "none"
    /\ called[2] = <<"blk2", "blk1">>
    /\ Len(returned) = 2
    /\ Len(FileBlocks(nix_objects)) = 4
    /\ returned = <<neo_nix_map["blk2"], neo_nix_map["blk1"]>>

\* a block with a name and a description and nothing else
Bare(b) ==
    /\ heap[b].name # "" /\ heap[b].description # ""
    /\ heap[b].segments = <<>> /\ heap[b].recordingchannelgroups = <<>>
    /\ heap[b].file_datetime = <<>> /\ heap[b].file_origin = ""
    /\ heap[b].annotations = <<>>

\* C16: a write_block call that returns, on a Block that has a name and a
\* description but no segments, no channel groups, no timestamps, no
\* file_origin and no annotations, adds to the file exactly one object, a
\* Block of type "neo.block" with that name and that definition, without
\* groups, sources, data arrays, multi-tags or metadata, and adds no
\* metadata section.
C16_BareBlock ==
    [][(/\ called' # <<>> /\ called'[1] = "write_block"
        /\ raised' = "none"
        /\ Bare(called'[2]))
       => /\ nix_objects' =
                 Append(nix_objects,
                        [NixObject("block", heap[called'[2]].name,
                                   "neo.block", 0)
                            EXCEPT !.definition = heap[called'[2]].description])
          /\ returned' = Len(nix_objects')
          /\ nix_sections' = nix_sections
      ]_vars

\* a bare block was written into a file that already holds a full one
C16_Witness ==
    /\ LastCall("write_block") /\ raised = "none" /\ called[2] = "blk2"
    /\ Bare("blk2")
    /\ calls = 2
    /\ nix_objects[returned].name = "blk2"
    /\ nix_objects[returned].definition = "about blk2"
    /\ Owned(Mapper, returned, "group") = <<>>
    /\ Len(nix_objects) > 10

\* the segments that hold an Epoch or Event
HoldersOf(t) == {seg \in Segments : t \in TaggedBy(seg)}

\* C17: the MultiTag made for an Epoch has type "neo.epoch", a positions
\* DataArray holding the Epoch's times and an extents DataArray holding its
\* durations; the MultiTag made for an Event has type "neo.event", a
\* positions DataArray holding the Event's times and no extents; either
\* MultiTag is among the multi_tags of the Group of the segment that holds
\* the Epoch or Event.
C17_EpochAndEventTags ==
    [][\A t \in Epochs \cup Events :
           NewlyMapped(t) =>
               LET tag == nix_objects'[neo_nix_map'[t]]
               IN  /\ tag.kind = "multi_tag"
                   /\ tag.type = IF t \in Epochs THEN "neo.epoch"
                                 ELSE "neo.event"
                   /\ tag.positions # 0
                   /\ nix_objects'[tag.positions].kind = "data_array"
                   /\ nix_objects'[tag.positions].data = heap[t].times
                   /\ t \in Epochs =>
                          /\ tag.extents # 0
                          /\ nix_objects'[tag.extents].kind = "data_array"
                          /\ nix_objects'[tag.extents].data =
                                 heap[t].durations
                   /\ t \in Events => tag.extents = 0
                   /\ \A seg \in HoldersOf(t) :
                          /\ seg \in DOMAIN neo_nix_map'
                          /\ neo_nix_map'[t] \in
                                 Range(nix_objects'[neo_nix_map'[seg]]
                                           .multi_tags)
      ]_vars

\* an Epoch and an Event were written with their segment
C17_Witness ==
    /\ raised = "none"
    /\ {"seg1", "ep1", "ev1"} \subseteq DOMAIN neo_nix_map
    /\ nix_objects[nix_objects[neo_nix_map["ep1"]].extents].data = <<2, 3>>
    /\ nix_objects[nix_objects[neo_nix_map["ep1"]].positions].data = <<1, 4>>
    /\ nix_objects[nix_objects[neo_nix_map["ev1"]].positions].data = <<3>>
    /\ nix_objects[neo_nix_map["ev1"]].extents = 0
    /\ {neo_nix_map["ep1"], neo_nix_map["ev1"]}
           \subseteq Range(nix_objects[neo_nix_map["seg1"]].multi_tags)

\* a section of a file content holds a property with a value
HoldsProperty(secs, sec, name, value) ==
    sec # 0 /\ \E k \in 1..Len(secs[sec].props) :
                   secs[sec].props[k] = <<name, value>>

\* an optional quantity has a value: any value, or only a value that Python
\* takes for true
Present(quantity, zero_included) ==
    IF zero_included THEN quantity # <<>> ELSE Truthy(quantity)

\* what write_spiketrain leaves for a spike train it has just mapped, given
\* whether a t_start or left_sweep of zero counts as a value
SpikeTrainMetadata(st, zero_included) ==
    LET tag == nix_objects'[neo_nix_map'[st]]
    IN  /\ HoldsProperty(nix_sections', tag.metadata, "t_stop",
                         heap[st].t_stop)
        /\ Present(heap[st].t_start, zero_included) =>
               HoldsProperty(nix_sections', tag.metadata, "t_start",
                             heap[st].t_start[1])
        /\ (heap[st].waveforms /\ Present(heap[st].left_sweep, zero_included)) =>
               /\ tag.features # <<>>
               /\ HoldsProperty(nix_sections',
                                nix_objects'[tag.features[1][1]].metadata,
                                "left_sweep", heap[st].left_sweep[1])

\* t_stop is always kept, and t_start and left_sweep when they are not zero
SpikeTrainMetadataKept ==
    [][raised' = "none" =>
           \A st \in SpikeTrains :
               NewlyMapped(st) => SpikeTrainMetadata(st, FALSE)]_vars

\* C18: after a call that wrote a SpikeTrain has returned, the metadata
\* section of the spike train's MultiTag holds "t_stop", and "t_start"
\* whenever the spike train has a t_start value, zero included; with
\* waveforms and a left_sweep value, the metadata section of the waveform
\* DataArray holds "left_sweep".
C18_SpikeTrainMetadata ==
    [][raised' = "none" =>
           \A st \in SpikeTrains :
               NewlyMapped(st) => SpikeTrainMetadata(st, TRUE)]_vars

\* C19: every DataArray of a mapped AnalogSignal has the dimensions
\* [sampled, set] and every DataArray of a mapped IrregularlySampledSignal
\* [range, set]; the MultiTag of a mapped SpikeTrain with waveforms has
\* exactly one feature, indexed, whose DataArray has the dimensions
\* [set, set, sampled]; the MultiTag of a SpikeTrain without waveforms has
\* no feature.
C19_DimensionOrder ==
    /\ \A sig \in (DOMAIN neo_nix_map) \cap AnalogSignals :
           \A da \in Range(neo_nix_map[sig]) :
               nix_objects[da].dimensions = <<"sampled", "set">>
    /\ \A sig \in (DOMAIN neo_nix_map) \cap IrregularSignals :
           \A da \in Range(neo_nix_map[sig]) :
               nix_objects[da].dimensions = <<"range", "set">>
    /\ \A st \in (DOMAIN neo_nix_map) \cap SpikeTrains :
           LET features == nix_objects[neo_nix_map[st]].features
           IN  IF heap[st].waveforms
               THEN /\ Len(features) = 1
                    /\ features[1][2] = "Indexed"
                    /\ nix_objects[features[1][1]].type = "neo.waveforms"
                    /\ nix_objects[features[1][1]].dimensions =
                           <<"set", "set", "sampled">>
               ELSE features = <<>>

\* both kinds of signal and both kinds of spike train were written
C19_Witness ==
    /\ raised = "none"
    /\ {"asig1", "isig1", "st1", "st2"} \subseteq DOMAIN neo_nix_map
    /\ Len(neo_nix_map["asig1"]) = MaxChannels
    /\ heap["st1"].waveforms /\ ~heap["st2"].waveforms
    /\ Len(nix_objects[neo_nix_map["st1"]].features) = 1

\* no call takes an entry out of the identity table
IdentityTableGrows ==
    [][DOMAIN neo_nix_map \subseteq DOMAIN neo_nix_map']_vars

\* C20: no write operation of a mapper removes an entry of the identity
\* table or replaces the sink object (or list of sink objects) an entry
\* holds by a different one, also when an entity is written again.
C20_IdentityTableAppendOnly ==
    [][(raised = "none" /\ raised' = "none") =>
           \A e \in DOMAIN neo_nix_map :
               /\ e \in DOMAIN neo_nix_map'
               /\ neo_nix_map'[e] = neo_nix_map[e]]_vars

\* the MultiTags made for a spike train: those whose positions hold its times
TagsMadeFor(st) ==
    {t \in 1..Len(nix_objects) :
        /\ nix_objects[t].type = "neo.spiketrain"
        /\ nix_objects[nix_objects[t].positions].data = heap[st].times}

\* one write_block call wrote the unnamed spike train that two segments of
\* the block hold twice, and the table holds the second MultiTag only
SpikeTrainMappedTwice ==
    /\ LastCall("write_block") /\ calls = 1 /\ raised = "none"
    /\ heap["st1"].name = ""
    /\ Cardinality(TagsMadeFor("st1")) = 2
    /\ \E t \in TagsMadeFor("st1") : t < neo_nix_map["st1"]

\* the sections that belong to one sink object each: all but the sections
\* the DataArrays of a signal share
OwnSections ==
    {sec \in 1..Len(nix_sections) :
        nix_sections[sec].type \notin {"neo.analogsignal.metadata",
                                       "neo.irregularlysampledsignal.metadata"}}

\* the sink objects that are ancestors on a path: Blocks, Groups, Sources
Ancestors ==
    {o \in 1..Len(nix_objects) :
        nix_objects[o].kind \in {"block", "group", "source"}}

\* the objects on a path that have no section
Unsectioned(path) ==
    {k \in 1..Len(path) :
        nix_objects[get_object_at(Mapper, SubSeq(path, 1, k))].metadata = 0}

\* asking for the section of an object that has one changes nothing; asking
\* for one that has none makes at most one section per object of its path
\* that has none, and asking again changes nothing more
RequestIdempotent ==
    \A o \in Ancestors :
        LET path == PathOf(Mapper, o)
            M1 == get_or_init_metadata(Mapper, o, path)
        IN  /\ nix_objects[o].metadata # 0 => M1 = Mapper
            /\ get_or_init_metadata(M1, o, path) = M1
            /\ Len(M1.secs) - Len(nix_sections)
                   <= Cardinality(Unsectioned(path))

\* C21: a sink object that has a metadata section keeps that section through
\* every later call, a request for the section of such an object returns
\* without creating anything, a request for an object without one creates
\* one section for it and one for each ancestor that has none, and every
\* section made for a sink object is the section of exactly one object.
C21_MetadataRequestIdempotent ==
    /\ [](/\ RequestIdempotent
          /\ \A sec \in OwnSections :
                 Cardinality({o \in 1..Len(nix_objects) :
                                 nix_objects[o].metadata = sec}) = 1)
    /\ [][/\ \A o \in 1..Len(nix_objects) :
                 nix_objects[o].metadata # 0 =>
                     nix_objects'[o].metadata = nix_objects[o].metadata
          /\ \A sec \in 1..Len(nix_sections) :
                 nix_sections'[sec].parent = nix_sections[sec].parent
         ]_vars

\* a block with a file_datetime, a file_origin and annotations was written
\* whole: its section was asked for by each of them and by every descendant
C21_Witness ==
    /\ LastCall("write_block") /\ raised = "none" /\ called[2] = "blk1"
    /\ heap["blk1"].file_datetime # <<>>
    /\ heap["blk1"].file_origin # ""
    /\ Len(nix_sections[nix_objects[returned].metadata].props) = 3
    /\ Cardinality(SubSections(Mapper, nix_objects[returned].metadata)) = 3

\* the objects a step creates, and the Sources among them
Created == (Len(nix_objects) + 1)..Len(nix_objects')

CreatedSources == {o \in Created : nix_objects'[o].kind = "source"}

\* what a segment holds
ChildrenOf(seg) == SignalsOf(seg) \cup TaggedBy(seg)
                       \cup Range(heap[seg].spiketrains)

\* the step entered `e` in the identity table, with sink objects it created
\* before every Source it created
EnteredBeforeSources(e) ==
    /\ e \in DOMAIN neo_nix_map'
    /\ \A o \in (IF e \in Signals THEN Range(neo_nix_map'[e])
                 ELSE {neo_nix_map'[e]}) :
           /\ o \in Created
           /\ \A src \in CreatedSources : o < src

\* C22: in a write_block call that gets as far as creating a Source, every
\* object that is not a Source was created before the first Source, and
\* every Segment of the block, with all its signals, epochs, events and
\* spike trains, was entered in the identity table before it; and in any
\* call, a channel group whose Source has been appended to the sources of a
\* DataArray has had all its Units mapped, under that Source.
C22_SegmentsBeforeChannelGroups ==
    [][/\ (called' # <<>> /\ called'[1] = "write_block"
               /\ CreatedSources # {}) =>
              /\ \A o \in Created \ CreatedSources :
                     nix_objects'[o].kind # "block" =>
                         \A src \in CreatedSources : o < src
              /\ \A seg \in Range(heap[called'[2]].segments) :
                     /\ EnteredBeforeSources(seg)
                     /\ \A e \in ChildrenOf(seg) : EnteredBeforeSources(e)
       /\ \A rcg \in ChannelGroups :
              (/\ NewlyMapped(rcg)
               /\ \E da \in 1..Len(nix_objects') :
                      /\ nix_objects'[da].kind = "data_array"
                      /\ neo_nix_map'[rcg] \in Range(nix_objects'[da].sources))
              => \A u \in Range(heap[rcg].units) :
                     /\ NewlyMapped(u)
                     /\ nix_objects'[neo_nix_map'[u]].parent =
                            neo_nix_map'[rcg]
      ]_vars

\* a block with two segments and a channel group with two Units was written
\* whole, and the signals of the group were wired
C22_Witness ==
    /\ LastCall("write_block") /\ raised = "none" /\ called[2] = "blk1"
    /\ calls = 1
    /\ {"seg1", "seg2", "asig1", "isig1", "ep1", "ev1", "st1", "rcg1",
        "unit1", "unit2"} \subseteq DOMAIN neo_nix_map
    /\ neo_nix_map["st1"] < neo_nix_map["rcg1"]
    /\ neo_nix_map["seg2"] < neo_nix_map["rcg1"]
    /\ \A da \in Range(neo_nix_map["isig1"]) :
           neo_nix_map["rcg1"] \in Range(nix_objects[da].sources)

IsPrefix(s, t) == Len(s) <= Len(t) /\ SubSeq(t, 1, Len(s)) = s

\* the step took nothing away: every object and section is still there, with
\* the lists it had (perhaps longer), and every key of the table
NothingUndone ==
    /\ Len(nix_objects) <= Len(nix_objects')
    /\ \A o \in 1..Len(nix_objects) :
           /\ \A f \in {"kind", "name", "type", "parent", "definition",
                        "positions", "data"} :
                  nix_objects'[o][f] = nix_objects[o][f]
           /\ nix_objects[o].metadata # 0 =>
                  nix_objects'[o].metadata = nix_objects[o].metadata
           /\ \A f \in {"data_arrays", "multi_tags", "sources", "references",
                        "features", "dimensions"} :
                  IsPrefix(nix_objects[o][f], nix_objects'[o][f])
    /\ Len(nix_sections) <= Len(nix_sections')
    /\ \A sec \in 1..Len(nix_sections) :
           /\ nix_sections'[sec].name = nix_sections[sec].name
           /\ nix_sections'[sec].parent = nix_sections[sec].parent
           /\ IsPrefix(nix_sections[sec].props, nix_sections'[sec].props)
    /\ DOMAIN neo_nix_map \subseteq DOMAIN neo_nix_map'

\* the entities write_block reaches, in the order it reaches them (a signal
\* without columns leaves no sink object and is left out)
RECURSIVE Flatten(_)
Flatten(seqs) ==
    IF seqs = <<>> THEN <<>> ELSE Head(seqs) \o Flatten(Tail(seqs))

Traversal(b) ==
    SelectSeq(
        <<b>>
        \o Flatten([i \in 1..Len(heap[b].segments) |->
               LET seg == heap[b].segments[i]
               IN  <<seg>> \o heap[seg].analogsignals
                       \o heap[seg].irregularlysampledsignals
                       \o heap[seg].epochs \o heap[seg].events
                       \o heap[seg].spiketrains])
        \o Flatten([i \in 1..Len(heap[b].recordingchannelgroups) |->
               LET rcg == heap[b].recordingchannelgroups[i]
               IN  <<rcg>> \o heap[rcg].units]),
        LAMBDA e : e \notin Signals \/ heap[e].nchannels > 0)

\* the step left `e` in the table with sink objects it created
WrittenNow(e) ==
    /\ e \in DOMAIN neo_nix_map'
    /\ (IF e \in Signals THEN Range(neo_nix_map'[e]) ELSE {neo_nix_map'[e]})
           \subseteq Created

\* what the step wrote of a traversal is a beginning of it: an entity that
\* was written is not reached for the first time after one that was not
WrittenUpTo(entities) ==
    \A reached \in {entities} :
        \A i, j \in 1..Len(reached) :
            (/\ i < j
             /\ \A k \in 1..(j - 1) : reached[k] # reached[j]
             /\ WrittenNow(reached[j]))
            => WrittenNow(reached[i])

\* C23: a write_block or write_all_blocks call that fails hands the error to
\* its caller and returns nothing; nothing that was in the file or in the
\* table before is taken away, what the call wrote before the failure is
\* there (after an unresolved reference: the block, all its segments with
\* what they hold, and the failing channel group), and nothing that comes
\* after the point of failure in the input is written.
C23_FailureLeavesPartialWrite ==
    [][(/\ called' # <<>>
        /\ called'[1] \in {"write_block", "write_all_blocks"}
        /\ raised' # "none")
       => /\ returned' = <<>>
          /\ NothingUndone
          /\ WrittenUpTo(IF called'[1] = "write_block"
                         THEN Traversal(called'[2])
                         ELSE Flatten([i \in 1..Len(called'[2]) |->
                                          Traversal(called'[2][i])]))
          /\ (called'[1] = "write_block" /\ raised' = "KeyError") =>
                 /\ WrittenNow(called'[2])
                 /\ \A seg \in Range(heap[called'[2]].segments) :
                        /\ WrittenNow(seg)
                        /\ \A e \in ChildrenOf(seg) :
                               e \in DOMAIN neo_nix_map'
                 /\ \E rcg \in Range(heap[called'[2]].recordingchannelgroups) :
                        WrittenNow(rcg)
      ]_vars

\* write_all_blocks failed on its first block at a Unit with an unresolved
\* spike train: the block, its segments and the Unit's Source are in the
\* file, the second block is not
C23_Witness ==
    /\ LastCall("write_all_blocks") /\ raised = "KeyError" /\ calls = 1
    /\ called[2] = <<"blk1", "blk2">>
    /\ {"blk1", "seg1", "seg2", "asig1", "st1", "rcg1", "unit1", "unit2"}
           \subseteq DOMAIN neo_nix_map
    /\ "blk2" \notin DOMAIN neo_nix_map
    /\ Len(FileBlocks(nix_objects)) = 1
    /\ nix_sections # <<>>

\* the number of objects of a kind that `parent` owned when `o` was created
OwnedBefore(o, kind, parent) ==
    Cardinality({p \in 1..(o - 1) : /\ nix_objects[p].kind = kind
                                   /\ nix_objects[p].parent = parent})

\* the Groups that list `o` in one of their collections
GroupsListing(o, field) ==
    {g \in 1..Len(nix_objects) :
        nix_objects[g].kind = "group" /\ o \in Range(nix_objects[g][field])}

\* the number of entries a list had before `o` was appended to it
ListedBefore(list, o) == (CHOOSE k \in 1..Len(list) : list[k] = o) - 1

KindTag(e) ==
    CASE e \in Segments -> "Segment"
      [] e \in ChannelGroups -> "RecordingChannelGroup"
      [] e \in Units -> "Unit"
      [] e \in AnalogSignals -> "AnalogSignal"
      [] e \in IrregularSignals -> "IrregularlySampledSignal"
      [] e \in Epochs -> "Epoch"
      [] e \in Events -> "Event"
      [] e \in SpikeTrains -> "SpikeTrain"

\* the first sink object of a mapped entity (0 for a signal without columns)
FirstSink(e) ==
    IF e \notin Signals THEN neo_nix_map[e]
    ELSE IF neo_nix_map[e] = <<>> THEN 0
    ELSE neo_nix_map[e][1]

\* the mapper gave `e` the sink name `name`: the name of its sink object,
\* or, for a signal, the name its DataArrays carry before ".<column>"
HasSinkName(e, name) ==
    IF e \in Signals
    THEN \A k \in 1..Len(neo_nix_map[e]) :
             nix_objects[neo_nix_map[e][k]].name =
                 name \o "." \o ToString(k - 1)
    ELSE nix_objects[neo_nix_map[e]].name = name

\* "<P>.<KindTag><n>" with P the object that owns the sink object and n the
\* number of objects of that kind P owned before
OwnerRelativeName(e) ==
    LET o == FirstSink(e)
        P == nix_objects[o].parent
    IN  nix_objects[P].name \o "." \o KindTag(e)
            \o ToString(OwnedBefore(o, nix_objects[o].kind, P))

\* "<P>.<KindTag><n>" with P the one Group that lists the sink object and n
\* the number of entries that list of the Group had before
GroupRelativeName(e, field) ==
    LET o == FirstSink(e)
        g == CHOOSE g \in GroupsListing(o, field) : TRUE
    IN  nix_objects[g].name \o "." \o KindTag(e)
            \o ToString(ListedBefore(nix_objects[g][field], o))

\* the name NixIO synthesizes: counted in the Group for an Epoch or Event,
\* in the owning Block or Source for everything else
SynthesizedName(e) ==
    IF e \in Blocks
        THEN "neo.Block" \o ToString(OwnedBefore(FirstSink(e), "block", 0))
    ELSE IF e \in Epochs \cup Events
        THEN GroupRelativeName(e, "multi_tags")
    ELSE OwnerRelativeName(e)

\* the name counted at the object the parent_path leads to: the Group also
\* for a signal and for a spike train written under a Group
PathRelativeName(e) ==
    IF e \in Signals THEN GroupRelativeName(e, "data_arrays")
    ELSE IF e \in SpikeTrains /\ GroupsListing(FirstSink(e), "multi_tags") # {}
        THEN GroupRelativeName(e, "multi_tags")
    ELSE SynthesizedName(e)

\* every mapped entity with a sink object: all but signals without columns
Sunk == {e \in DOMAIN neo_nix_map : FirstSink(e) # 0}

\* C24 as amended: an entity with a name keeps it; an entity without one is
\* called "<P>.<KindTag><n>", where for an Epoch or Event P is the Group at
\* parent_path and n the number of multi_tags that Group had, and for every
\* other kind P is the Block or Source that owns the new object (for a
\* signal or spike train the Block at the head of parent_path, not the
\* Group) and n the number of objects of that kind P owned; an unnamed Block
\* is called "neo.Block<n>", n the number of blocks in the file.
C24_SynthesizedNames ==
    \A e \in Sunk :
        IF heap[e].name # "" THEN HasSinkName(e, heap[e].name)
        ELSE HasSinkName(e, SynthesizedName(e))

\* an unnamed block was written whole after another one, with signals, an
\* Epoch, an Event and spike trains
C24_Witness ==
    /\ raised = "none" /\ calls = 2
    /\ \A e \in Entities : heap[e].name = ""
    /\ {"blk1", "blk2", "seg2", "rcg1", "unit2", "asig2", "isig1", "ep1",
        "ev1", "st1", "st2"} \subseteq Sunk
    /\ nix_objects[neo_nix_map["blk1"]].name = "neo.Block1"
    /\ nix_objects[neo_nix_map["seg2"]].name = "neo.Block1.Segment1"
    /\ nix_objects[neo_nix_map["ev1"]].name = "neo.Block1.Segment0.Event1"

\* C24: an entity with a name keeps it; an entity without one is called
\* "<P>.<KindTag><n>" with P the sink object at the parent_path handed to
\* the operation and n the number of children of the created kind P had at
\* that moment; an unnamed Block is called "neo.Block<n>".
C24_NamedAfterPathParent ==
    \A e \in Sunk :
        IF heap[e].name # "" THEN HasSinkName(e, heap[e].name)
        ELSE HasSinkName(e, PathRelativeName(e))

\* the MultiTag the step made for a spike train hangs in exactly one place:
\* in the multi_tags of one Group, with no sources, or in no Group, with one
\* Source as its only source
AttachedOneWay(st) ==
    LET tag == neo_nix_map'[st]
        groups == {g \in 1..Len(nix_objects') :
                      /\ nix_objects'[g].kind = "group"
                      /\ tag \in Range(nix_objects'[g].multi_tags)}
        sources == nix_objects'[tag].sources
    IN  \/ Cardinality(groups) = 1 /\ sources = <<>>
        \/ /\ groups = {}
           /\ Len(sources) = 1
           /\ nix_objects'[sources[1]].kind = "source"

\* a write_spiketrain call that gets as far as the identity table attaches
\* the MultiTag in exactly one of the two ways
SpikeTrainAttachedOneWay ==
    [][(called' # <<>> /\ called'[1] = "write_spiketrain"
            /\ NewlyMapped(called'[2]))
       => AttachedOneWay(called'[2])]_vars

\* C25: a write_spiketrain call that the store does not refuse for a name
\* attaches the new MultiTag in exactly one of two ways (to the Group at
\* parent_path, leaving the sources empty, or by appending the Source at
\* parent_path to the sources, adding the MultiTag to no Group), completes,
\* and sets the identity-table entry of the spike train.
C25_SpikeTrainAttachedAndDone ==
    [][(called' # <<>> /\ called'[1] = "write_spiketrain"
            /\ raised' # "DuplicateName")
       => /\ raised' = "none"
          /\ NewlyMapped(called'[2])
          /\ returned' = neo_nix_map'[called'[2]]
          /\ AttachedOneWay(called'[2])]_vars

\* write_spiketrain returned for a spike train written under a Unit
SpikeTrainUnderUnit ==
    /\ LastCall("write_spiketrain") /\ raised = "none"
    /\ nix_objects[returned].sources # <<>>
    /\ nix_objects[nix_objects[returned].sources[1]].type = "neo.unit"

\* the channel Sources under a Source of a file content, in creation order
ChannelsUnder(objs, src) ==
    SelectSeq(Owned([objs |-> objs], src, "source"),
              LAMBDA o : objs[o].type = "neo.recordingchannel")

\* the channel Sources of a channel group are named as C26 says: by
\* channel_names as far as that list goes, by position beyond its end
ChannelsNamed(objs, rcg, src) ==
    \A chans \in {ChannelsUnder(objs, src)} :
        /\ Len(chans) = Len(heap[rcg].channel_indexes)
        /\ \A i \in 1..Len(chans) :
               objs[chans[i]].name =
                   IF i <= Len(heap[rcg].channel_names)
                   THEN heap[rcg].channel_names[i]
                   ELSE objs[src].name \o "." \o ToString(i - 1)

\* C26: a call that writes a channel group with k channel indices, and is
\* not refused by the store for a name, leaves k channel Sources under the
\* group's Source: the i-th is called channel_names[i] where the list of
\* names has an i-th entry, and "<group sink name>.<i>" (i from zero) where
\* it has none, because no names are given or because the list is shorter
\* than the list of indices; in that case too the channels are all written.
C26_ChannelNames ==
    [][\A rcg \in ChannelGroups :
           (NewlyMapped(rcg) /\ raised' # "DuplicateName") =>
               ChannelsNamed(nix_objects', rcg, neo_nix_map'[rcg])]_vars

\* the same for the groups whose list of names is empty or complete
ChannelNamesGivenOrPositional ==
    [][\A rcg \in ChannelGroups :
           (/\ NewlyMapped(rcg) /\ raised' # "DuplicateName"
            /\ Len(heap[rcg].channel_names)
                   \in {0, Len(heap[rcg].channel_indexes)}) =>
               ChannelsNamed(nix_objects', rcg, neo_nix_map'[rcg])]_vars

\* the sink Block that owns an object of the file
RECURSIVE SinkBlockOf(_)
SinkBlockOf(o) ==
    IF nix_objects[o].kind = "block" THEN o
    ELSE SinkBlockOf(nix_objects[o].parent)

\* the DataArrays and MultiTags that list a Source of another sink Block
CrossBlockReferences ==
    {o \in 1..Len(nix_objects) :
        /\ nix_objects[o].kind \in {"data_array", "multi_tag"}
        /\ \E src \in Range(nix_objects[o].sources) :
               SinkBlockOf(src) # SinkBlockOf(o)}

\* C27: whatever blocks one mapper has written, every Source in the sources
\* list of a DataArray or MultiTag belongs to the sink Block that owns that
\* DataArray or MultiTag.
C27_ReferencesWithinOneBlock == CrossBlockReferences = {}

\* the same for the blocks whose channel groups and units list only signals
\* and spike trains of segments of their own block
ReferencesWithinOwnBlock ==
    (\A b \in Blocks :
        \A rcg \in Range(heap[b].recordingchannelgroups) :
            \A seg \in Segments \ Range(heap[b].segments) :
                /\ ListedBy(rcg) \cap SignalsOf(seg) = {}
                /\ \A u \in Range(heap[rcg].units) :
                       Range(heap[u].spiketrains)
                           \cap Range(heap[seg].spiketrains) = {})
        => CrossBlockReferences = {}

\* a sequence without repeated entries
NoRepeats(seq) == \A i, j \in 1..Len(seq) : seq[i] = seq[j] => i = j

\* the signal DataArrays and spike-train MultiTags of the file whose sources
\* list names some Source more than once
SourcesRepeated ==
    {o \in 1..Len(nix_objects) :
        /\ nix_objects[o].type \in {"neo.analogsignal",
                                    "neo.irregularlysampledsignal",
                                    "neo.spiketrain"}
        /\ ~ NoRepeats(nix_objects[o].sources)}

\* C28: after a write_block that returned, no signal DataArray and no
\* spike-train MultiTag lists a Source twice in its sources, also when a
\* spike train is listed by several Units of one channel group or a signal
\* is listed more than once by a channel group.
C28_SourcesListedOnce ==
    (LastCall("write_block") /\ raised = "none") => SourcesRepeated = {}

\* the same for the object graphs in which no channel group lists a signal
\* twice and no two Units of a channel group list the same spike train
SourcesListedOnceWhenListedOnce ==
    (/\ LastCall("write_block") /\ raised = "none"
     /\ \A rcg \in ChannelGroups :
            /\ NoRepeats(heap[rcg].analogsignals)
            /\ NoRepeats(heap[rcg].irregularlysampledsignals)
            /\ \A i, j \in 1..Len(heap[rcg].units) :
                   i # j => Range(heap[heap[rcg].units[i]].spiketrains)
                                \cap Range(heap[heap[rcg].units[j]].spiketrains)
                                = {})
        => SourcesRepeated = {}

\* the objects of a file content that list the Source `src` in their sources
Listing(objs, src) ==
    {o \in 1..Len(objs) : src \in Range(objs[o].sources)}

\* the step is a call of one of `methods` that ended with the error of an
\* unresolved reference
Unresolved(methods) ==
    /\ called' # <<>> /\ called'[1] \in methods
    /\ raised' = "KeyError"

\* a write_unit that fails on an unresolved spike train wires nothing: the
\* sources lists of the file are what they were, and no MultiTag lists the
\* Source of a Unit written last in a failing write_block
UnitWiringAllOrNothing ==
    [][/\ Unresolved({"write_unit"}) =>
              \A o \in 1..Len(nix_objects) :
                  nix_objects'[o].sources = nix_objects[o].sources
       /\ Unresolved({"write_unit", "write_recordingchannelgroup",
                      "write_block"}) =>
              \A ut \in Units :
                  (/\ NewlyMapped(ut)
                   /\ \A other \in Units :
                          NewlyMapped(other) =>
                              neo_nix_map'[other] <= neo_nix_map'[ut]
                   /\ \E st \in Range(heap[ut].spiketrains) :
                          st \notin DOMAIN neo_nix_map')
                      => Listing(nix_objects', neo_nix_map'[ut]) = {}]_vars

\* C29: wiring the back-references is all-or-nothing per container.  A
\* write_unit that ends with the unresolved-reference error has appended
\* neither its Source nor the Source of its channel group to any MultiTag,
\* and a channel group whose writing ends with that error has its Source in
\* the sources of no DataArray.
C29_WiringAllOrNothing ==
    [][/\ Unresolved({"write_unit"}) =>
              \A o \in 1..Len(nix_objects) :
                  nix_objects'[o].sources = nix_objects[o].sources
       /\ Unresolved({"write_recordingchannelgroup", "write_block"}) =>
              \A rcg \in ChannelGroups :
                  NewlyMapped(rcg) =>
                      \A o \in Listing(nix_objects', neo_nix_map'[rcg]) :
                          nix_objects'[o].kind # "data_array"]_vars

\* a state after a write_unit that failed on an unresolved spike train
UnitUnresolved ==
    /\ LastCall("write_unit") /\ raised = "KeyError"
    /\ called[2] \in DOMAIN neo_nix_map
    /\ Listing(nix_objects, neo_nix_map[called[2]]) = {}

\* the DataArrays the identity table holds for the signals of a segment, in
\* the order write_segment writes them
OwnSignalArrays(seg) ==
    Flatten([i \in 1..Len(heap[seg].analogsignals) |->
                 neo_nix_map[heap[seg].analogsignals[i]]])
        \o Flatten([i \in 1..Len(heap[seg].irregularlysampledsignals) |->
                        neo_nix_map[heap[seg].irregularlysampledsignals[i]]])

\* C30: after a write_block that returned, the Group of each segment of the
\* block lists in data_arrays exactly the per-channel DataArrays of the
\* signals of that segment (no array of times, durations or waveforms, no
\* array of another segment), and the references of every Epoch and Event
\* MultiTag of the segment hold DataArrays of that list and nothing else.
C30_GroupHoldsOwnSignalArrays ==
    (LastCall("write_block") /\ raised = "none") =>
        \A seg \in Range(heap[called[2]].segments) :
            /\ nix_objects[neo_nix_map[seg]].data_arrays = OwnSignalArrays(seg)
            /\ \A da \in Range(nix_objects[neo_nix_map[seg]].data_arrays) :
                   nix_objects[da].type \in
                       {"neo.analogsignal", "neo.irregularlysampledsignal"}
            /\ \A t \in TaggedBy(seg) :
                   Range(nix_objects[neo_nix_map[t]].references)
                       \subseteq Range(OwnSignalArrays(seg))

\* a block was written whose first segment has signals, an epoch, an event
\* and a spike train with waveforms: the block owns arrays of times,
\* durations and waveforms besides the signal arrays, the first Group lists
\* the signal arrays only and the other Group none
C30_Witness ==
    /\ LastCall("write_block") /\ raised = "none" /\ called[2] = "blk1"
    /\ heap["asig1"].nchannels = MaxChannels
    /\ Len(nix_objects[neo_nix_map["seg1"]].data_arrays) = MaxChannels + 3
    /\ nix_objects[neo_nix_map["seg2"]].data_arrays = <<>>
    /\ Len(Owned(Mapper, neo_nix_map["blk1"], "data_array")) > MaxChannels + 3
    /\ Range(nix_objects[neo_nix_map["ep1"]].references)
           = Range(nix_objects[neo_nix_map["seg1"]].data_arrays)
    /\ Range(nix_objects[neo_nix_map["ev1"]].references)
           = Range(nix_objects[neo_nix_map["seg1"]].data_arrays)

====
